---- MODULE Spec2Model ----
(***************************************************************************)
(* SolCalc core engine: tokenizer, parser, decimal propagation, rounding   *)
(* and evaluator, modelled operation by operation.                         *)
(*                                                                         *)
(* Source strings are sequences of one-character strings, positions are    *)
(* the 0-based offsets of the source.  bigint magnitudes are integers of   *)
(* the model; the strings the engine renders (human, roundingLoss) are     *)
(* sequences of characters.                                                *)
(***************************************************************************)
EXTENDS Integers, Sequences, FiniteSets, TLC

VARIABLES expression, variables, roundingMode, targetDecimals, pc, tokens, ast, result,
          callDividend, callDivisor, trackedTypeBounds, calls, storeVariables, storeCall

vars == <<expression, variables, roundingMode, targetDecimals, pc, tokens, ast, result,
          callDividend, callDivisor, trackedTypeBounds, calls, storeVariables, storeCall>>

\* the Set of bound types the latest evaluation created, and the calls made
\* so far with what they returned
callRecord == <<trackedTypeBounds, calls>>

\* the variables Map of the calculator store, and the latest call of one of
\* its setters with the Map it found
storeState == <<storeVariables, storeCall>>

\* the arguments of a direct call of divideWithRounding
roundingArguments == <<callDividend, callDivisor>>

(***************************************************************************)
(* Bounds of the model.                                                    *)
(***************************************************************************)
\* variable magnitudes range over -MaxValue .. MaxValue
MaxValue == 2
\* variable scales range over 0 .. MaxDecimals
MaxDecimals == 2
\* dividends range over -MaxDividend .. MaxDividend
MaxDividend == 7
\* divisors range over -MaxDivisor .. MaxDivisor
MaxDivisor == 3
\* stands for Number.MAX_SAFE_INTEGER (2^53 - 1): the largest exponent that
\* Number.isSafeInteger accepts in the model
MaxSafeInteger == 4

(***************************************************************************)
(* Values shared by the operations.                                        *)
(***************************************************************************)
NoError == [name |-> "none"]

ParseError(message, position) ==
    [name |-> "ParseError", message |-> message, position |-> position]

\* an absent optional field (undefined) is the empty sequence, a present one
\* the one-element sequence of its value
Undefined == <<>>

Some(v) == <<v>>

\* a statement's value, computed once, and the statements after it
Then(value, Rest(_)) == Rest(value)

Abs(n) == IF n < 0 THEN -n ELSE n

RECURSIVE Pow(_, _)
Pow(b, n) == IF n = 0 THEN 1 ELSE b * Pow(b, n - 1)

\* bigint division truncates toward zero
BigIntDiv(a, b) ==
    IF (a < 0) = (b < 0) THEN Abs(a) \div Abs(b) ELSE -(Abs(a) \div Abs(b))

\* the bigint remainder has the sign of the dividend
BigIntRem(a, b) == a - b * BigIntDiv(a, b)

(***************************************************************************)
(* Characters and strings.                                                 *)
(***************************************************************************)
DigitChars == <<"0", "1", "2", "3", "4", "5", "6", "7", "8", "9">>

LowerCase == {"a", "b", "c", "d", "e", "f", "g", "h", "i", "j", "k", "l", "m",
              "n", "o", "p", "q", "r", "s", "t", "u", "v", "w", "x", "y", "z"}

UpperCase == {"A", "B", "C", "D", "E", "F", "G", "H", "I", "J", "K", "L", "M",
              "N", "O", "P", "Q", "R", "S", "T", "U", "V", "W", "X", "Y", "Z"}

isWhitespace(char) == char \in {" ", "\t", "\n", "\r"}

isDigit(char) == \E i \in 1..10 : DigitChars[i] = char

isIdentifierStart(char) == char \in LowerCase \/ char \in UpperCase \/ char = "_"

isIdentifierPart(char) == isIdentifierStart(char) \/ isDigit(char)

\* input[position], undefined (the empty string) past the end
charAt(input, position) ==
    IF position >= 0 /\ position < Len(input) THEN input[position + 1] ELSE ""

\* input.substring(from, to)
substring(input, from, to) ==
    SubSeq(input, from + 1, IF to > Len(input) THEN Len(input) ELSE to)

startsWith(input, position, prefix) ==
    substring(input, position, position + Len(prefix)) = prefix

digitValue(char) == (CHOOSE i \in 1..10 : DigitChars[i] = char) - 1

\* BigInt(text) / parseInt(text, 10) of a run of decimal digits
RECURSIVE digitsToInt(_)
digitsToInt(text) ==
    IF Len(text) = 0 THEN 0
    ELSE 10 * digitsToInt(SubSeq(text, 1, Len(text) - 1)) + digitValue(text[Len(text)])

\* n.toString() of a non-negative bigint
RECURSIVE natToString(_)
natToString(n) ==
    IF n < 10 THEN <<DigitChars[n + 1]>>
    ELSE Append(natToString(n \div 10), DigitChars[(n % 10) + 1])

\* value.toString() of a bigint
bigintToString(n) == IF n < 0 THEN <<"-">> \o natToString(-n) ELSE natToString(n)

toLowerCase(text) == [i \in 1..Len(text) |-> IF text[i] = "E" THEN "e" ELSE text[i]]

\* index (1-based) of the first occurrence of char in text, 0 when absent
RECURSIVE indexOf(_, _, _)
indexOf(text, char, from) ==
    IF from > Len(text) THEN 0
    ELSE IF text[from] = char THEN from
    ELSE indexOf(text, char, from + 1)

(***************************************************************************)
(* Tokenizer.                                                              *)
(***************************************************************************)
Token(type, value, position) == [type |-> type, value |-> value, position |-> position]

\* end of the run of digits that starts at position
RECURSIVE skipDigits(_, _)
skipDigits(input, position) ==
    IF position < Len(input) /\ isDigit(input[position + 1])
    THEN skipDigits(input, position + 1)
    ELSE position

RECURSIVE skipIdentifierPart(_, _)
skipIdentifierPart(input, position) ==
    IF position < Len(input) /\ isIdentifierPart(input[position + 1])
    THEN skipIdentifierPart(input, position + 1)
    ELSE position

\* readNumber: integer part, then an optional e|E, optional sign and the
\* mandatory exponent digits
readNumber(input, startPos) ==
    LET intEnd == skipDigits(input, startPos)
        hasExp == charAt(input, intEnd) \in {"e", "E"}
        signEnd == IF charAt(input, intEnd + 1) \in {"+", "-"} THEN intEnd + 2 ELSE intEnd + 1
        expEnd == skipDigits(input, signEnd)
    IN  IF ~hasExp
        THEN [error |-> NoError,
              token |-> Token("NUMBER", substring(input, startPos, intEnd), startPos)]
        ELSE IF expEnd = signEnd
        THEN [error |-> ParseError("Invalid scientific notation: missing exponent digits", startPos)]
        ELSE [error |-> NoError,
              token |-> Token("NUMBER", substring(input, startPos, expEnd), startPos)]

\* a number written with a decimal point: digits, a point, digits
isDecimalLiteral(input, startPos) ==
    LET intEnd == skipDigits(input, startPos)
    IN  charAt(input, intEnd) = "." /\ isDigit(charAt(input, intEnd + 1))

readDecimalLiteral(input, startPos) ==
    LET intEnd == skipDigits(input, startPos)
        fracEnd == skipDigits(input, intEnd + 1)
    IN  [error |-> NoError,
         token |-> Token("DECIMAL_LITERAL", substring(input, startPos, fracEnd), startPos)]

\* a reader that records where the identifier ends
readIdentifierAtEnd(input, startPos) ==
    Token("IDENTIFIER", substring(input, startPos, skipIdentifierPart(input, startPos + 1)),
          skipIdentifierPart(input, startPos + 1))

\* readIdentifier(input, startPos)
readIdentifier(input, startPos) ==
    Token("IDENTIFIER", substring(input, startPos, skipIdentifierPart(input, startPos + 1)), startPos)

\* a reader that keeps the alias as written
readTypeBoundUnnormalized(input, startPos) ==
    LET p0 == startPos + 5
        isSigned == charAt(input, p0) # "u"
        p1 == IF isSigned THEN p0 ELSE p0 + 1
        p2 == p1 + 3
        p3 == skipDigits(input, p2)
        bitsStr == substring(input, p2, p3)
        bound == substring(input, p3 + 2, p3 + 5)
        matches == /\ startsWith(input, startPos, <<"t", "y", "p", "e", "(">>)
                   /\ startsWith(input, p1, <<"i", "n", "t">>)
                   /\ startsWith(input, p3, <<")", ".">>)
                   /\ bound \in {<<"m", "a", "x">>, <<"m", "i", "n">>}
        bits == IF Len(bitsStr) > 0 THEN digitsToInt(bitsStr) ELSE 256
    IN  IF ~matches
        THEN [matched |-> FALSE, error |-> NoError]
        ELSE IF bits % 8 # 0 \/ bits < 8 \/ bits > 256
        THEN [matched |-> TRUE, error |-> ParseError("Invalid Solidity type", startPos)]
        ELSE [matched |-> TRUE, error |-> NoError,
              token |-> Token("TYPE_BOUND", substring(input, startPos, p3 + 5), startPos),
              endPosition |-> p3 + 5]

\* readTypeBound: the pattern /^type\((u?int)(\d+)?\)\.(max|min)/ at startPos
readTypeBound(input, startPos) ==
    LET p0 == startPos + 5
        isSigned == charAt(input, p0) # "u"
        p1 == IF isSigned THEN p0 ELSE p0 + 1
        p2 == p1 + 3
        p3 == skipDigits(input, p2)
        bitsStr == substring(input, p2, p3)
        bound == substring(input, p3 + 2, p3 + 5)
        matches == /\ startsWith(input, startPos, <<"t", "y", "p", "e", "(">>)
                   /\ startsWith(input, p1, <<"i", "n", "t">>)
                   /\ startsWith(input, p3, <<")", ".">>)
                   /\ bound \in {<<"m", "a", "x">>, <<"m", "i", "n">>}
        bits == IF Len(bitsStr) > 0 THEN digitsToInt(bitsStr) ELSE 256
        typeName == (IF isSigned THEN <<"i", "n", "t">> ELSE <<"u", "i", "n", "t">>)
                    \o (IF Len(bitsStr) > 0 THEN bitsStr ELSE <<"2", "5", "6">>)
    IN  IF ~matches
        THEN [matched |-> FALSE, error |-> NoError]
        ELSE IF bits % 8 # 0 \/ bits < 8 \/ bits > 256
        THEN [matched |-> TRUE, error |-> ParseError("Invalid Solidity type", startPos)]
        ELSE [matched |-> TRUE, error |-> NoError,
              token |-> Token("TYPE_BOUND",
                              <<"t", "y", "p", "e", "(">> \o typeName \o <<")", ".">> \o bound,
                              startPos),
              endPosition |-> p3 + 5]

\* the single- and double-character operators of the switch
operatorToken(input, position) ==
    LET char == charAt(input, position)
    IN  CASE char = "+" -> Token("PLUS", <<"+">>, position)
          [] char = "-" -> Token("MINUS", <<"-">>, position)
          [] char = "/" -> Token("DIVIDE", <<"/">>, position)
          [] char = "(" -> Token("LPAREN", <<"(">>, position)
          [] char = ")" -> Token("RPAREN", <<")">>, position)
          [] char = "*" /\ charAt(input, position + 1) = "*" -> Token("POWER", <<"*", "*">>, position)
          [] char = "*" /\ charAt(input, position + 1) # "*" -> Token("MULTIPLY", <<"*">>, position)
          [] OTHER -> Token("NONE", <<>>, position)

\* the comparison operators, the longest match first
comparisonToken(input, position) ==
    LET char == charAt(input, position)
        next == charAt(input, position + 1)
    IN  CASE char = "=" /\ next = "=" -> Token("EQUAL", <<"=", "=">>, position)
          [] char = "!" /\ next = "=" -> Token("NOT_EQUAL", <<"!", "=">>, position)
          [] char = "<" /\ next = "=" -> Token("LESS_THAN_OR_EQUAL", <<"<", "=">>, position)
          [] char = ">" /\ next = "=" -> Token("GREATER_THAN_OR_EQUAL", <<">", "=">>, position)
          [] char = "<" /\ next # "=" -> Token("LESS_THAN", <<"<">>, position)
          [] char = ">" /\ next # "=" -> Token("GREATER_THAN", <<">">>, position)
          [] OTHER -> Token("NONE", <<>>, position)

\* the loop of tokenize, from position with the tokens read so far
RECURSIVE tokenizeFrom(_, _, _)
tokenizeFrom(input, position, acc) ==
    IF position >= Len(input)
    THEN [error |-> NoError, tokens |-> Append(acc, Token("EOF", <<>>, position))]
    ELSE
    LET char == input[position + 1]
        typeBound == IF char = "t" /\ startsWith(input, position, <<"t", "y", "p", "e", "(">>)
                     THEN readTypeBound(input, position)
                     ELSE [matched |-> FALSE, error |-> NoError]
        number == IF isDecimalLiteral(input, position)
                  THEN readDecimalLiteral(input, position)
                  ELSE readNumber(input, position)
        identifier == readIdentifier(input, position)
        operator == operatorToken(input, position)
        comparison == comparisonToken(input, position)
    IN  IF isWhitespace(char) THEN tokenizeFrom(input, position + 1, acc)
        ELSE IF typeBound.matched
        THEN IF typeBound.error.name # "none" THEN [error |-> typeBound.error, tokens |-> <<>>]
             ELSE tokenizeFrom(input, typeBound.endPosition, Append(acc, typeBound.token))
        ELSE IF isDigit(char)
        THEN IF number.error.name # "none" THEN [error |-> number.error, tokens |-> <<>>]
             ELSE tokenizeFrom(input, number.token.position + Len(number.token.value),
                               Append(acc, number.token))
        ELSE IF isIdentifierStart(char)
        THEN tokenizeFrom(input, identifier.position + Len(identifier.value), Append(acc, identifier))
        ELSE IF operator.type # "NONE"
        THEN tokenizeFrom(input, position + Len(operator.value), Append(acc, operator))
        ELSE IF comparison.type # "NONE"
        THEN tokenizeFrom(input, position + Len(comparison.value), Append(acc, comparison))
        ELSE [error |-> ParseError("Unexpected character", position), tokens |-> <<>>]

tokenize(input) == tokenizeFrom(input, 0, <<>>)

(***************************************************************************)
(* Parser.  Every parse function takes the token array and the parser's    *)
(* position (an index into the array) and returns the node, the position   *)
(* after it, and the error thrown, if any.                                 *)
(***************************************************************************)
NumberLiteralNode(value, decimals) ==
    [type |-> "NUMBER_LITERAL", value |-> value, decimals |-> decimals]

TypeBoundLiteralNode(value, solidityType, bound) ==
    [type |-> "TYPE_BOUND_LITERAL", value |-> value, decimals |-> 0,
     solidityType |-> solidityType, bound |-> bound]

IdentifierNode(name) == [type |-> "IDENTIFIER", name |-> name]

BinaryOpNode(operator, left, right) ==
    [type |-> "BINARY_OP", operator |-> operator, left |-> left, right |-> right]

ComparisonNode(operator, left, right) ==
    [type |-> "COMPARISON", operator |-> operator, left |-> left, right |-> right]

ExponentiationNode(base, exponent) ==
    [type |-> "EXPONENTIATION", base |-> base, exponent |-> exponent]

Parsed(node, position) == [error |-> NoError, node |-> node, position |-> position]

Thrown(error) == [error |-> error]

\* this.tokens[this.position] || this.tokens[this.tokens.length - 1]
currentToken(toks, position) ==
    IF position < Len(toks) THEN toks[position + 1] ELSE toks[Len(toks)]

advance(toks, position) == IF position < Len(toks) - 1 THEN position + 1 ELSE position

\* parseInt(text, 10) of an optional sign and digits
parseInt(text) ==
    IF Len(text) > 0 /\ text[1] = "-" THEN -digitsToInt(Tail(text))
    ELSE IF Len(text) > 0 /\ text[1] = "+" THEN digitsToInt(Tail(text))
    ELSE digitsToInt(text)

\* parseScientificNotation: mantissa * 10^exponent, a negative exponent throws
parseScientificNotation(value, position) ==
    LET lower == toLowerCase(value)
        e == indexOf(lower, "e", 1)
        mantissaStr == SubSeq(lower, 1, e - 1)
        exponentStr == SubSeq(lower, e + 1, Len(lower))
        exponent == parseInt(exponentStr)
    IN  IF Len(mantissaStr) = 0 \/ Len(exponentStr) = 0
        THEN [error |-> ParseError("Invalid scientific notation", position)]
        ELSE IF exponent < 0
        THEN [error |-> ParseError("Negative exponents in literals are not supported", position)]
        ELSE [error |-> NoError, value |-> digitsToInt(mantissaStr) * Pow(10, exponent)]

\* a number parser that recognises the scale constant by the mantissa's
\* numeric value rather than its text
parseNumberLiteralByMantissaValue(value, position) ==
    LET lower == toLowerCase(value)
        e == indexOf(lower, "e", 1)
        mantissaStr == SubSeq(lower, 1, e - 1)
        exponent == parseInt(SubSeq(lower, e + 1, Len(lower)))
    IN  IF e # 0
        THEN IF exponent < 0 THEN Thrown(ParseError("Invalid number", position))
             ELSE IF digitsToInt(mantissaStr) = 1
             THEN Parsed(NumberLiteralNode(Pow(10, exponent), exponent), position)
             ELSE Parsed(NumberLiteralNode(digitsToInt(mantissaStr) * Pow(10, exponent), 0),
                         position)
        ELSE Parsed(NumberLiteralNode(digitsToInt(value), 0), position)

\* parseNumberLiteral(value), called with the parser at position; whatever is
\* thrown inside is caught and thrown again as "Invalid number"
parseNumberLiteral(value, position) ==
    LET lower == toLowerCase(value)
        e == indexOf(lower, "e", 1)
        mantissaStr == SubSeq(lower, 1, e - 1)
        exponentStr == SubSeq(lower, e + 1, Len(lower))
        exponent == parseInt(exponentStr)
        scientific == parseScientificNotation(value, position)
        invalid == Thrown(ParseError("Invalid number", position))
    IN  IF e # 0
        THEN IF mantissaStr = <<"1">>
             THEN IF exponent < 0 THEN invalid
                  ELSE Parsed(NumberLiteralNode(Pow(10, exponent), exponent), position)
             ELSE IF scientific.error.name # "none" THEN invalid
                  ELSE Parsed(NumberLiteralNode(scientific.value, 0), position)
        ELSE Parsed(NumberLiteralNode(digitsToInt(value), 0), position)

\* a bound parser whose signed minimum mirrors the signed maximum
parseTypeBoundSymmetric(value, position) ==
    LET isSigned == value[6] # "u"
        close == indexOf(value, ")", 1)
        bitsFrom == IF isSigned THEN 9 ELSE 10
        bitsText == SubSeq(value, bitsFrom, close - 1)
        bitsStr == IF Len(bitsText) > 0 THEN bitsText ELSE <<"2", "5", "6">>
        bound == SubSeq(value, close + 2, Len(value))
        bits == digitsToInt(bitsStr)
        solidityType == (IF isSigned THEN <<"i", "n", "t">> ELSE <<"u", "i", "n", "t">>) \o bitsStr
        boundValue == IF ~isSigned
                      THEN IF bound = <<"m", "a", "x">> THEN Pow(2, bits) - 1 ELSE 0
                      ELSE IF bound = <<"m", "a", "x">> THEN Pow(2, bits - 1) - 1
                           ELSE -(Pow(2, bits - 1) - 1)
    IN  Parsed(TypeBoundLiteralNode(boundValue, solidityType, bound), position)

\* parseTypeBound(value) of a token text type(<u?int><bits>?).<max|min>
parseTypeBound(value, position) ==
    LET isSigned == value[6] # "u"
        close == indexOf(value, ")", 1)
        bitsFrom == IF isSigned THEN 9 ELSE 10
        bitsText == SubSeq(value, bitsFrom, close - 1)
        bitsStr == IF Len(bitsText) > 0 THEN bitsText ELSE <<"2", "5", "6">>
        bound == SubSeq(value, close + 2, Len(value))
        bits == digitsToInt(bitsStr)
        solidityType == (IF isSigned THEN <<"i", "n", "t">> ELSE <<"u", "i", "n", "t">>) \o bitsStr
        boundValue == IF ~isSigned
                      THEN IF bound = <<"m", "a", "x">> THEN Pow(2, bits) - 1 ELSE 0
                      ELSE IF bound = <<"m", "a", "x">> THEN Pow(2, bits - 1) - 1
                           ELSE -Pow(2, bits - 1)
    IN  Parsed(TypeBoundLiteralNode(boundValue, solidityType, bound), position)

\* a decimal literal parser that forgets to divide by 10^decimalPlaces
parseDecimalLiteralUnnormalized(toks, position) ==
    LET decimalToken == currentToken(toks, position)
        p1 == advance(toks, position)
        p2 == advance(toks, p1)
        multiplierToken == currentToken(toks, p2)
        dot == indexOf(decimalToken.value, ".", 1)
        numerator == digitsToInt(SubSeq(decimalToken.value, 1, dot - 1)
                                 \o SubSeq(decimalToken.value, dot + 1, Len(decimalToken.value)))
        multiplierValue == parseNumberLiteral(multiplierToken.value, p2)
    IN  IF currentToken(toks, p1).type # "MULTIPLY" \/ multiplierToken.type # "NUMBER"
        THEN Thrown(ParseError("Invalid decimal literal", decimalToken.position))
        ELSE IF multiplierValue.error.name # "none" THEN multiplierValue
        ELSE Parsed(NumberLiteralNode(numerator * multiplierValue.node.value,
                                      multiplierValue.node.decimals),
                    advance(toks, p2))

\* parseDecimalLiteral(decimalToken), called with the parser still at the
\* decimal token
parseDecimalLiteral(toks, position) ==
    LET decimalToken == currentToken(toks, position)
        p1 == advance(toks, position)
        p2 == advance(toks, p1)
        multiplierToken == currentToken(toks, p2)
        dot == indexOf(decimalToken.value, ".", 1)
        integerPart == SubSeq(decimalToken.value, 1, dot - 1)
        fractionalPart == SubSeq(decimalToken.value, dot + 1, Len(decimalToken.value))
        decimalPlaces == Len(fractionalPart)
        numerator == digitsToInt(integerPart \o fractionalPart)
        multiplierValue == parseNumberLiteral(multiplierToken.value, p2)
        requiredMultiplier == Pow(10, decimalPlaces)
        normalizedValue == BigIntDiv(numerator * multiplierValue.node.value, requiredMultiplier)
    IN  IF currentToken(toks, p1).type # "MULTIPLY"
        THEN Thrown(ParseError("Decimal literal cannot be represented as an integer",
                               decimalToken.position))
        ELSE IF multiplierToken.type # "NUMBER"
        THEN Thrown(ParseError("Decimal literal must be multiplied by a power-of-10 constant",
                               multiplierToken.position))
        ELSE IF dot = 0 \/ decimalPlaces = 0
        THEN Thrown(ParseError("Invalid decimal literal", decimalToken.position))
        ELSE IF multiplierValue.error.name # "none" THEN multiplierValue
        ELSE IF multiplierValue.node.value < requiredMultiplier
        THEN Thrown(ParseError("Decimal literal requires multiplication by at least 10^decimalPlaces",
                               multiplierToken.position))
        ELSE Parsed(NumberLiteralNode(normalizedValue, multiplierValue.node.decimals),
                    advance(toks, p2))

RECURSIVE parseExpression(_, _)
RECURSIVE parseExpressionLoop(_, _, _)
RECURSIVE parseTerm(_, _)
RECURSIVE parseTermLoop(_, _, _)
RECURSIVE parseExponentiation(_, _)
RECURSIVE parsePrimary(_, _)

\* parsePrimary: a literal, an identifier or a parenthesized expression
parsePrimary(toks, position) ==
    LET token == currentToken(toks, position)
        p1 == advance(toks, position)
    IN  CASE token.type = "NUMBER" -> parseNumberLiteral(token.value, p1)
          [] token.type = "DECIMAL_LITERAL" -> parseDecimalLiteral(toks, position)
          [] token.type = "TYPE_BOUND" -> parseTypeBound(token.value, p1)
          [] token.type = "IDENTIFIER" -> Parsed(IdentifierNode(token.value), p1)
          [] token.type = "LPAREN" ->
                Then(parseExpression(toks, p1), LAMBDA expr :
                    IF expr.error.name # "none" THEN expr
                    ELSE IF currentToken(toks, expr.position).type # "RPAREN"
                    THEN Thrown(ParseError("Expected closing parenthesis",
                                           currentToken(toks, expr.position).position))
                    ELSE Parsed(expr.node, advance(toks, expr.position)))
          [] OTHER -> Thrown(ParseError("Unexpected token", token.position))

\* parseExponentiation: primary ('**' exponentiation)?, right-associative
parseExponentiation(toks, position) ==
    Then(parsePrimary(toks, position), LAMBDA left :
        IF left.error.name # "none" THEN left
        ELSE IF currentToken(toks, left.position).type = "POWER"
        THEN Then(parseExponentiation(toks, advance(toks, left.position)), LAMBDA right :
                 IF right.error.name # "none" THEN right
                 ELSE Parsed(ExponentiationNode(left.node, right.node), right.position))
        ELSE left)

\* a multiplicative level that groups to the right
parseTermLoopRightAssociative(toks, left, position) ==
    LET type == currentToken(toks, position).type
        operator == IF type = "MULTIPLY" THEN "*" ELSE "/"
    IN  IF type \in {"MULTIPLY", "DIVIDE"}
        THEN Then(parseTerm(toks, advance(toks, position)), LAMBDA right :
                 IF right.error.name # "none" THEN right
                 ELSE Parsed(BinaryOpNode(operator, left, right.node), right.position))
        ELSE Parsed(left, position)

\* the while loop of parseTerm, with the left operand built so far
parseTermLoop(toks, left, position) ==
    LET type == currentToken(toks, position).type
        operator == IF type = "MULTIPLY" THEN "*" ELSE "/"
    IN  IF type \in {"MULTIPLY", "DIVIDE"}
        THEN Then(parseExponentiation(toks, advance(toks, position)), LAMBDA right :
                 IF right.error.name # "none" THEN right
                 ELSE parseTermLoop(toks, BinaryOpNode(operator, left, right.node),
                                    right.position))
        ELSE Parsed(left, position)

parseTerm(toks, position) ==
    Then(parseExponentiation(toks, position), LAMBDA left :
        IF left.error.name # "none" THEN left
        ELSE parseTermLoop(toks, left.node, left.position))

\* the while loop of parseExpression, with the left operand built so far
parseExpressionLoop(toks, left, position) ==
    LET type == currentToken(toks, position).type
        operator == IF type = "PLUS" THEN "+" ELSE "-"
    IN  IF type \in {"PLUS", "MINUS"}
        THEN Then(parseTerm(toks, advance(toks, position)), LAMBDA right :
                 IF right.error.name # "none" THEN right
                 ELSE parseExpressionLoop(toks, BinaryOpNode(operator, left, right.node),
                                          right.position))
        ELSE Parsed(left, position)

parseExpression(toks, position) ==
    Then(parseTerm(toks, position), LAMBDA left :
        IF left.error.name # "none" THEN left
        ELSE parseExpressionLoop(toks, left.node, left.position))

ComparisonTokenTypes ==
    {"EQUAL", "NOT_EQUAL", "LESS_THAN", "LESS_THAN_OR_EQUAL", "GREATER_THAN",
     "GREATER_THAN_OR_EQUAL"}

comparisonOperator(type) ==
    CASE type = "EQUAL" -> "=="
      [] type = "NOT_EQUAL" -> "!="
      [] type = "LESS_THAN" -> "<"
      [] type = "LESS_THAN_OR_EQUAL" -> "<="
      [] type = "GREATER_THAN" -> ">"
      [] type = "GREATER_THAN_OR_EQUAL" -> ">="

\* the comparison level: expression (comparison-operator expression)?, at most
\* one comparison operator, its sides being arithmetic expressions
parseComparison(toks, position) ==
    Then(parseExpression(toks, position), LAMBDA left :
        IF left.error.name # "none" THEN left
        ELSE IF currentToken(toks, left.position).type \in ComparisonTokenTypes
        THEN Then(parseExpression(toks, advance(toks, left.position)), LAMBDA right :
                 IF right.error.name # "none" THEN right
                 ELSE Parsed(ComparisonNode(comparisonOperator(currentToken(toks, left.position).type),
                                            left.node, right.node),
                             right.position))
        ELSE left)

\* a parse that returns the first complete tree and leaves the rest unread
parseIgnoringTrailingTokens(toks) == parseComparison(toks, 0)

\* Parser.parse: the whole token array must be consumed
parse(toks) ==
    Then(parseComparison(toks, 0), LAMBDA root :
        IF root.error.name # "none" THEN root
        ELSE IF currentToken(toks, root.position).type # "EOF"
        THEN Thrown(ParseError("Unexpected token", currentToken(toks, root.position).position))
        ELSE root)

(***************************************************************************)
(* Decimal propagation and formatting.  A bigint handed to the formatter   *)
(* is its sign and its decimal digits, so that magnitudes of any size can  *)
(* be rendered.                                                            *)
(***************************************************************************)
DecimalMismatchError(leftDecimals, rightDecimals, operator) ==
    [name |-> "DecimalMismatchError", leftDecimals |-> leftDecimals,
     rightDecimals |-> rightDecimals, operator |-> operator]

\* a multiplication that takes the larger scale instead of the sum
multiplyDecimalsTakingMax(leftDecimals, rightDecimals) ==
    IF leftDecimals > rightDecimals THEN leftDecimals ELSE rightDecimals

multiplyDecimals(leftDecimals, rightDecimals) == leftDecimals + rightDecimals

\* a division that never lets the scale go below zero
divideDecimalsClamped(leftDecimals, rightDecimals) ==
    IF leftDecimals < rightDecimals THEN 0 ELSE leftDecimals - rightDecimals

divideDecimals(leftDecimals, rightDecimals) == leftDecimals - rightDecimals

addDecimals(leftDecimals, rightDecimals) ==
    IF leftDecimals # rightDecimals
    THEN [error |-> DecimalMismatchError(leftDecimals, rightDecimals, "+")]
    ELSE [error |-> NoError, decimals |-> leftDecimals]

subtractDecimals(leftDecimals, rightDecimals) ==
    IF leftDecimals # rightDecimals
    THEN [error |-> DecimalMismatchError(leftDecimals, rightDecimals, "-")]
    ELSE [error |-> NoError, decimals |-> leftDecimals]

BigInt(n) == [negative |-> n < 0, digits |-> natToString(Abs(n))]

Zeros(n) == [i \in 1..n |-> "0"]

\* text.padStart(length, '0')
padStart(text, length) ==
    IF Len(text) >= length THEN text ELSE Zeros(length - Len(text)) \o text

\* formatWithDecimals(value, decimals), value given as sign and digits
formatWithDecimals(value, decimals) ==
    LET valueStr == value.digits
        toString == IF value.negative THEN <<"-">> \o valueStr ELSE valueStr
        paddedValue == padStart(valueStr, decimals + 1)
        integerPart == SubSeq(paddedValue, 1, Len(paddedValue) - decimals)
        decimalPart == SubSeq(paddedValue, Len(paddedValue) - decimals + 1, Len(paddedValue))
        formatted == (IF Len(integerPart) = 0 THEN <<"0">> ELSE integerPart)
                     \o <<".">> \o decimalPart
    IN  IF decimals < 0
        THEN IF valueStr = <<"0">> THEN toString ELSE toString \o Zeros(-decimals)
        ELSE IF decimals = 0 THEN toString
        ELSE IF value.negative THEN <<"-">> \o formatted ELSE formatted

\* scaleToDecimals: multiply when scaling up, truncating division when down
scaleToDecimals(value, fromDecimals, toDecimals) ==
    LET decimalDiff == toDecimals - fromDecimals
    IN  IF decimalDiff = 0 THEN value
        ELSE IF decimalDiff > 0 THEN value * Pow(10, decimalDiff)
        ELSE BigIntDiv(value, Pow(10, -decimalDiff))

\* text without its trailing run of "0"
RECURSIVE stripTrailingZeros(_)
stripTrailingZeros(text) ==
    IF Len(text) > 0 /\ text[Len(text)] = "0"
    THEN stripTrailingZeros(SubSeq(text, 1, Len(text) - 1))
    ELSE text

\* trimTrailingZeros: decimalString.replace(/\.?0+$/, '') when it has a point
trimTrailingZeros(decimalString) ==
    LET stripped == stripTrailingZeros(decimalString)
        replaced == IF stripped = decimalString THEN decimalString
                    ELSE IF Len(stripped) > 0 /\ stripped[Len(stripped)] = "."
                    THEN SubSeq(stripped, 1, Len(stripped) - 1)
                    ELSE stripped
    IN  IF indexOf(decimalString, ".", 1) = 0 THEN decimalString
        ELSE IF Len(replaced) > 0 /\ replaced[Len(replaced)] = "."
        THEN SubSeq(replaced, 1, Len(replaced) - 1)
        ELSE replaced

(***************************************************************************)
(* Rounding.                                                               *)
(***************************************************************************)
\* a floor division that truncates toward zero
floorDivideTruncating(dividend, divisor) == BigIntDiv(dividend, divisor)

\* floorDivide(dividend, divisor)
floorDivide(dividend, divisor) ==
    LET quotient == BigIntDiv(dividend, divisor)
        remainder == BigIntRem(dividend, divisor)
        differentSigns == (dividend < 0) # (divisor < 0)
    IN  IF remainder = 0 THEN quotient
        ELSE IF differentSigns THEN quotient - 1
        ELSE quotient

ceilDivide(dividend, divisor) ==
    LET quotient == BigIntDiv(dividend, divisor)
        remainder == BigIntRem(dividend, divisor)
        sameSigns == (dividend < 0) = (divisor < 0)
    IN  IF remainder = 0 THEN quotient
        ELSE IF sameSigns THEN quotient + 1
        ELSE quotient

\* divideWithRounding, the divisor being non-zero
divideWithRounding(dividend, divisor, mode) ==
    IF mode = "floor" THEN floorDivide(dividend, divisor) ELSE ceilDivide(dividend, divisor)

\* a rescaling that truncates toward zero in both modes
applyRoundingTruncating(value, fromDecimals, toDecimals, mode) ==
    scaleToDecimals(value, fromDecimals, toDecimals)

\* applyRounding(value, fromDecimals, toDecimals, mode)
applyRounding(value, fromDecimals, toDecimals, mode) ==
    LET decimalDiff == toDecimals - fromDecimals
    IN  IF decimalDiff >= 0 THEN scaleToDecimals(value, fromDecimals, toDecimals)
        ELSE divideWithRounding(value, Pow(10, -decimalDiff), mode)

calculateRoundingLoss(originalValue, roundedValue, fromDecimals, toDecimals) ==
    IF toDecimals >= fromDecimals THEN 0
    ELSE originalValue - scaleToDecimals(roundedValue, toDecimals, fromDecimals)

(***************************************************************************)
(* Evaluator.  evaluateNode returns the EvaluatedValue, the set of bound   *)
(* types tracked so far (in insertion order) and the error thrown, if any. *)
(***************************************************************************)
\* decimal places of precision of calculateDivisionLoss
precision == 50

InvalidExponentiationError(message) ==
    [name |-> "InvalidExponentiationError", message |-> message]

DivisionByZeroError == [name |-> "DivisionByZeroError"]

UndefinedVariableError(variableName) ==
    [name |-> "UndefinedVariableError", variableName |-> variableName]

MissingDecimalsError(variableName) ==
    [name |-> "MissingDecimalsError", variableName |-> variableName]

NegativeDecimalsError(variableName) == [name |-> "Error", variableName |-> variableName]

EvaluatedValue(value, decimals, typeBounds) ==
    [error |-> NoError, value |-> value, decimals |-> decimals,
     divisionRemainder |-> Undefined, divisionDivisor |-> Undefined,
     divisionResultDecimals |-> Undefined, typeBounds |-> typeBounds]

\* Number.isSafeInteger(Number(value))
isSafeInteger(value) == Abs(value) <= MaxSafeInteger

\* Set.add keeps the first insertion of an element
setAdd(set, element) ==
    IF \E i \in 1..Len(set) : set[i] = element THEN set ELSE Append(set, element)

evaluateNumberLiteral(node, typeBounds) == EvaluatedValue(node.value, node.decimals, typeBounds)

evaluateTypeBoundLiteral(node, typeBounds) ==
    EvaluatedValue(node.value, 0, setAdd(typeBounds, node.solidityType))

\* an identifier evaluation without the check for a negative scale
evaluateIdentifierAcceptingNegative(node, variableMap, typeBounds) ==
    LET variable == variableMap[node.name]
    IN  IF node.name \notin DOMAIN variableMap
        THEN Thrown(UndefinedVariableError(node.name))
        ELSE IF variable.decimals = Undefined
        THEN Thrown(MissingDecimalsError(node.name))
        ELSE EvaluatedValue(variable.value, variable.decimals[1], typeBounds)

\* evaluateIdentifier(node, variables)
evaluateIdentifier(node, variableMap, typeBounds) ==
    LET variable == variableMap[node.name]
    IN  IF node.name \notin DOMAIN variableMap
        THEN Thrown(UndefinedVariableError(node.name))
        ELSE IF variable.decimals = Undefined
        THEN Thrown(MissingDecimalsError(node.name))
        ELSE IF variable.decimals[1] < 0
        THEN Thrown(NegativeDecimalsError(node.name))
        ELSE EvaluatedValue(variable.value, variable.decimals[1], typeBounds)

\* a quotient that truncates in both modes
divisionQuotientTruncating(leftValue, rightValue, mode) == BigIntDiv(leftValue, rightValue)

\* the quotient of the '/' branch of evaluateBinaryOp
divisionQuotient(leftValue, rightValue, mode) ==
    LET remainder == BigIntRem(leftValue, rightValue)
    IN  IF mode = "floor" THEN BigIntDiv(leftValue, rightValue)
        ELSE IF remainder = 0 THEN BigIntDiv(leftValue, rightValue)
        ELSE BigIntDiv(leftValue + rightValue - 1, rightValue)

\* the left operand of + and - after scalar literal coercion
liftedLeftDecimals(node, left, right) ==
    LET leftIsScalarLiteral == node.left.type = "NUMBER_LITERAL" /\ left.decimals = 0
    IN  IF leftIsScalarLiteral /\ right.decimals > 0 THEN right.decimals ELSE left.decimals

\* the right operand of + and - after scalar literal coercion
liftedRightDecimals(node, left, right) ==
    LET leftIsScalarLiteral == node.left.type = "NUMBER_LITERAL" /\ left.decimals = 0
        rightIsScalarLiteral == node.right.type = "NUMBER_LITERAL" /\ right.decimals = 0
    IN  IF leftIsScalarLiteral /\ right.decimals > 0 THEN right.decimals
        ELSE IF rightIsScalarLiteral /\ left.decimals > 0 THEN left.decimals
        ELSE right.decimals

RECURSIVE evaluateNode(_, _, _, _)
RECURSIVE evaluateBinaryOp(_, _, _, _)
RECURSIVE evaluateExponentiation(_, _, _, _)

evaluateBinaryOp(node, variableMap, mode, typeBounds) ==
    LET left == evaluateNode(node.left, variableMap, mode, typeBounds)
        right == evaluateNode(node.right, variableMap, mode, left.typeBounds)
        finalLeftDecimals == liftedLeftDecimals(node, left, right)
        finalRightDecimals == liftedRightDecimals(node, left, right)
        sumDecimals == addDecimals(finalLeftDecimals, finalRightDecimals)
        differenceDecimals == subtractDecimals(finalLeftDecimals, finalRightDecimals)
        remainder == BigIntRem(left.value, right.value)
        resultDecimals == divideDecimals(left.decimals, right.decimals)
    IN  IF left.error.name # "none" THEN Thrown(left.error)
        ELSE IF right.error.name # "none" THEN Thrown(right.error)
        ELSE CASE node.operator = "+" ->
                    IF sumDecimals.error.name # "none" THEN Thrown(sumDecimals.error)
                    ELSE EvaluatedValue(left.value + right.value, sumDecimals.decimals,
                                        right.typeBounds)
               [] node.operator = "-" ->
                    IF differenceDecimals.error.name # "none" THEN Thrown(differenceDecimals.error)
                    ELSE EvaluatedValue(left.value - right.value, differenceDecimals.decimals,
                                        right.typeBounds)
               [] node.operator = "*" ->
                    EvaluatedValue(left.value * right.value,
                                   multiplyDecimals(left.decimals, right.decimals),
                                   right.typeBounds)
               [] node.operator = "/" ->
                    IF right.value = 0 THEN Thrown(DivisionByZeroError)
                    ELSE [error |-> NoError,
                          value |-> divisionQuotient(left.value, right.value, mode),
                          decimals |-> resultDecimals,
                          divisionRemainder |->
                              IF remainder # 0 THEN Some(remainder) ELSE Undefined,
                          divisionDivisor |->
                              IF remainder # 0 THEN Some(right.value) ELSE Undefined,
                          divisionResultDecimals |->
                              IF remainder # 0 THEN Some(resultDecimals) ELSE Undefined,
                          typeBounds |-> right.typeBounds]

\* an exponentiation whose result is a pure scalar: 10^n at scale 0
evaluateExponentiationAsScalar(node, variableMap, mode, typeBounds) ==
    LET exponent == evaluateNode(node.exponent, variableMap, mode, typeBounds)
        exponentNum == exponent.value
    IN  IF node.base.type # "NUMBER_LITERAL" \/ node.base.value # 10
        THEN Thrown(InvalidExponentiationError("base must be literal 10"))
        ELSE IF exponent.error.name # "none" THEN Thrown(exponent.error)
        ELSE IF exponent.decimals # 0 \/ ~isSafeInteger(exponentNum) \/ exponentNum < 0
        THEN Thrown(InvalidExponentiationError("invalid exponent"))
        ELSE EvaluatedValue(Pow(10, exponentNum), 0, exponent.typeBounds)

evaluateExponentiation(node, variableMap, mode, typeBounds) ==
    LET exponent == evaluateNode(node.exponent, variableMap, mode, typeBounds)
        exponentNum == exponent.value
    IN  IF node.base.type # "NUMBER_LITERAL"
        THEN Thrown(InvalidExponentiationError("base must be literal 10"))
        ELSE IF node.base.value # 10
        THEN Thrown(InvalidExponentiationError("base must be 10"))
        ELSE IF exponent.error.name # "none" THEN Thrown(exponent.error)
        ELSE IF exponent.decimals # 0
        THEN Thrown(InvalidExponentiationError("exponent must be dimensionless"))
        ELSE IF ~isSafeInteger(exponentNum)
        THEN Thrown(InvalidExponentiationError("exponent value too large"))
        ELSE IF exponentNum < 0
        THEN Thrown(InvalidExponentiationError("exponent must be non-negative"))
        ELSE EvaluatedValue(Pow(10, exponentNum), exponentNum, exponent.typeBounds)

evaluateNode(node, variableMap, mode, typeBounds) ==
    CASE node.type = "NUMBER_LITERAL" -> evaluateNumberLiteral(node, typeBounds)
      [] node.type = "TYPE_BOUND_LITERAL" -> evaluateTypeBoundLiteral(node, typeBounds)
      [] node.type = "IDENTIFIER" -> evaluateIdentifier(node, variableMap, typeBounds)
      [] node.type = "BINARY_OP" -> evaluateBinaryOp(node, variableMap, mode, typeBounds)
      [] node.type = "EXPONENTIATION" -> evaluateExponentiation(node, variableMap, mode, typeBounds)
      [] OTHER -> Thrown([name |-> "Error", message |-> "Unknown AST node type"])

\* digits of floor(numerator * 10^places / divisor) after the integer part,
\* numerator being the running remainder
RECURSIVE fractionDigits(_, _, _)
fractionDigits(numerator, divisor, places) ==
    IF places = 0 THEN <<>>
    ELSE <<DigitChars[((numerator * 10) \div divisor) + 1]>>
         \o fractionDigits((numerator * 10) % divisor, divisor, places - 1)

RECURSIVE stripLeadingZeros(_)
stripLeadingZeros(text) ==
    IF Len(text) > 1 /\ text[1] = "0" THEN stripLeadingZeros(Tail(text)) ELSE text

\* the bigint (numerator * 10^places) / divisor, numerator >= 0, by long division
scaledQuotient(numerator, places, divisor) ==
    LET d == Abs(divisor)
        digits == stripLeadingZeros(natToString(numerator \div d)
                                    \o fractionDigits(numerator % d, d, places))
    IN  [negative |-> divisor < 0 /\ digits # <<"0">>, digits |-> digits]

calculateDivisionLoss(remainder, divisor, resultDecimals, mode) ==
    LET lossNumerator == IF mode = "floor" THEN remainder ELSE -(divisor - remainder)
        isNegative == lossNumerator < 0
        absNumerator == IF isNegative THEN -lossNumerator ELSE lossNumerator
        fractionWithPrecision == scaledQuotient(absNumerator, precision, divisor)
        formatted == formatWithDecimals(fractionWithPrecision, precision + resultDecimals)
    IN  IF remainder = 0 THEN <<"0">>
        ELSE IF isNegative THEN <<"-">> \o formatted ELSE formatted

OverflowWarning(solidityType, kind, wrappedValue) ==
    [solidityType |-> solidityType, kind |-> kind, wrappedValue |-> wrappedValue,
     wrappedHuman |-> bigintToString(wrappedValue)]

\* a wrap that keeps the negative remainder of a negative value
calculateWrappedValueOfRemainder(value, bits, isSigned) ==
    LET range == Pow(2, bits)
        wrappedUnsigned == BigIntRem(value, range)
        half == Pow(2, bits - 1)
    IN  IF ~isSigned THEN wrappedUnsigned
        ELSE IF wrappedUnsigned >= half THEN wrappedUnsigned - range
        ELSE wrappedUnsigned

\* calculateWrappedValue(value, bits, isSigned)
calculateWrappedValue(value, bits, isSigned) ==
    LET range == Pow(2, bits)
        remainder == BigIntRem(value, range)
        wrappedUnsigned == IF remainder < 0 THEN remainder + range ELSE remainder
        half == Pow(2, bits - 1)
    IN  IF ~isSigned THEN wrappedUnsigned
        ELSE IF wrappedUnsigned >= half THEN wrappedUnsigned - range
        ELSE wrappedUnsigned

RECURSIVE detectOverflowFrom(_, _, _)
RECURSIVE detectOverflowInclusive(_, _, _)

\* a loop that also reports a value equal to the maximum or the minimum
detectOverflowInclusive(value, typeBounds, i) ==
    IF i > Len(typeBounds) THEN Undefined
    ELSE
    LET solidityType == typeBounds[i]
        isSigned == solidityType[1] = "i"
        bits == digitsToInt(SubSeq(solidityType, IF isSigned THEN 4 ELSE 5, Len(solidityType)))
        min == IF isSigned THEN -Pow(2, bits - 1) ELSE 0
        max == IF isSigned THEN Pow(2, bits - 1) - 1 ELSE Pow(2, bits) - 1
    IN  IF value >= max
        THEN Some(OverflowWarning(solidityType, "overflow",
                                  calculateWrappedValue(value, bits, isSigned)))
        ELSE IF value <= min
        THEN Some(OverflowWarning(solidityType, "underflow",
                                  calculateWrappedValue(value, bits, isSigned)))
        ELSE detectOverflowInclusive(value, typeBounds, i + 1)

\* the loop of detectOverflow over the bound types from index i
detectOverflowFrom(value, typeBounds, i) ==
    IF i > Len(typeBounds) THEN Undefined
    ELSE
    LET solidityType == typeBounds[i]
        isSigned == solidityType[1] = "i"
        bits == digitsToInt(SubSeq(solidityType, IF isSigned THEN 4 ELSE 5, Len(solidityType)))
        min == IF isSigned THEN -Pow(2, bits - 1) ELSE 0
        max == IF isSigned THEN Pow(2, bits - 1) - 1 ELSE Pow(2, bits) - 1
    IN  IF value > max
        THEN Some(OverflowWarning(solidityType, "overflow",
                                  calculateWrappedValue(value, bits, isSigned)))
        ELSE IF value < min
        THEN Some(OverflowWarning(solidityType, "underflow",
                                  calculateWrappedValue(value, bits, isSigned)))
        ELSE detectOverflowFrom(value, typeBounds, i + 1)

detectOverflow(value, typeBounds) ==
    IF Len(typeBounds) = 0 THEN Undefined ELSE detectOverflowFrom(value, typeBounds, 1)

EvaluationResult(raw, decimals, solidity, roundingLoss, warning) ==
    [error |-> NoError, raw |-> raw, decimals |-> decimals,
     human |-> formatWithDecimals(BigInt(raw), decimals),
     solidity |-> solidity, roundingLoss |-> roundingLoss, warning |-> warning]

\* the contents of the Set when evaluateNode returns or throws: the types of
\* the bound literals evaluated up to that point, added to typeBounds
RECURSIVE trackedTypes(_, _, _, _)
trackedTypes(node, variableMap, mode, typeBounds) ==
    CASE node.type = "TYPE_BOUND_LITERAL" -> setAdd(typeBounds, node.solidityType)
      [] node.type = "BINARY_OP" ->
            Then(trackedTypes(node.left, variableMap, mode, typeBounds), LAMBDA afterLeft :
                IF evaluateNode(node.left, variableMap, mode, typeBounds).error.name # "none"
                THEN afterLeft
                ELSE trackedTypes(node.right, variableMap, mode, afterLeft))
      [] node.type = "EXPONENTIATION" ->
            IF node.base.type # "NUMBER_LITERAL" \/ node.base.value # 10
            THEN typeBounds
            ELSE trackedTypes(node.exponent, variableMap, mode, typeBounds)
      [] OTHER -> typeBounds

\* a Set that is the one the previous evaluation left behind
sharedTypeBounds == trackedTypeBounds

\* new Set<string>()
newTypeBounds == <<>>

\* evaluateWithTargetDecimals(ast, variables, targetDecimals, roundingMode)
evaluateWithTargetDecimals(node, variableMap, target, mode) ==
    Then(evaluateNode(node, variableMap, mode, newTypeBounds), LAMBDA evaluated :
    LET scaledValue == applyRounding(evaluated.value, evaluated.decimals, target, mode)
        loss == calculateRoundingLoss(evaluated.value, scaledValue, evaluated.decimals, target)
        warning == IF evaluated.decimals = 0
                   THEN detectOverflow(evaluated.value, evaluated.typeBounds)
                   ELSE Undefined
    IN  IF evaluated.error.name # "none" THEN Thrown(evaluated.error)
        ELSE EvaluationResult(evaluated.value, evaluated.decimals, scaledValue,
                              formatWithDecimals(BigInt(loss), evaluated.decimals), warning))

\* an evaluate that rescales the result to scale 0
evaluateAtScaleZero(node, variableMap, mode) ==
    evaluateWithTargetDecimals(node, variableMap, 0, mode)

\* an evaluate that reports the loss of the left operand's division when the
\* root has none
evaluateSurfacingInnerLoss(node, variableMap, mode) ==
    LET evaluated == evaluateNode(node, variableMap, mode, <<>>)
        inner == IF node.type = "BINARY_OP" /\ evaluated.divisionRemainder = Undefined
                 THEN evaluateNode(node.left, variableMap, mode, <<>>)
                 ELSE evaluated
        roundingLoss == IF inner.divisionRemainder # Undefined
                        THEN trimTrailingZeros(
                                 calculateDivisionLoss(inner.divisionRemainder[1],
                                                       inner.divisionDivisor[1],
                                                       inner.divisionResultDecimals[1],
                                                       mode))
                        ELSE <<"0">>
        warning == IF evaluated.decimals = 0
                   THEN detectOverflow(evaluated.value, evaluated.typeBounds)
                   ELSE Undefined
    IN  IF evaluated.error.name # "none" THEN Thrown(evaluated.error)
        ELSE EvaluationResult(evaluated.value, evaluated.decimals, evaluated.value,
                              roundingLoss, warning)

\* evaluate(ast, variables, roundingMode)
evaluate(node, variableMap, mode) ==
    Then(evaluateNode(node, variableMap, mode, newTypeBounds), LAMBDA evaluated :
    LET hasLoss == /\ evaluated.divisionRemainder # Undefined
                   /\ evaluated.divisionDivisor # Undefined
                   /\ evaluated.divisionResultDecimals # Undefined
        roundingLoss == IF hasLoss
                        THEN trimTrailingZeros(
                                 calculateDivisionLoss(evaluated.divisionRemainder[1],
                                                       evaluated.divisionDivisor[1],
                                                       evaluated.divisionResultDecimals[1],
                                                       mode))
                        ELSE <<"0">>
        warning == IF evaluated.decimals = 0
                   THEN detectOverflow(evaluated.value, evaluated.typeBounds)
                   ELSE Undefined
    IN  IF evaluated.error.name # "none" THEN Thrown(evaluated.error)
        ELSE EvaluationResult(evaluated.value, evaluated.decimals, evaluated.value,
                              roundingLoss, warning))

ComparisonDecimalMismatchError(leftDecimals, rightDecimals) ==
    [name |-> "ComparisonDecimalMismatchError", leftDecimals |-> leftDecimals,
     rightDecimals |-> rightDecimals]

ComparisonResult(outcome, operator, leftHuman, rightHuman, decimals, warning) ==
    [error |-> NoError, result |-> outcome, operator |-> operator, leftHuman |-> leftHuman,
     rightHuman |-> rightHuman, decimals |-> decimals, warning |-> warning]

\* a comparison that reads <= as <
compareStrictly(operator, leftValue, rightValue) ==
    CASE operator = "==" -> leftValue = rightValue
      [] operator = "!=" -> leftValue # rightValue
      [] operator = "<" -> leftValue < rightValue
      [] operator = "<=" -> leftValue < rightValue
      [] operator = ">" -> leftValue > rightValue
      [] operator = ">=" -> leftValue >= rightValue

\* the switch of evaluateComparison on the operator
compare(operator, leftValue, rightValue) ==
    CASE operator = "==" -> leftValue = rightValue
      [] operator = "!=" -> leftValue # rightValue
      [] operator = "<" -> leftValue < rightValue
      [] operator = "<=" -> leftValue <= rightValue
      [] operator = ">" -> leftValue > rightValue
      [] operator = ">=" -> leftValue >= rightValue

\* evaluateComparison(node, variables, roundingMode): both sides are
\* evaluated before their scales are compared
evaluateComparison(node, variableMap, mode) ==
    Then(evaluate(node.left, variableMap, mode), LAMBDA leftResult :
        IF leftResult.error.name # "none" THEN leftResult
        ELSE Then(evaluate(node.right, variableMap, mode), LAMBDA rightResult :
                 IF rightResult.error.name # "none" THEN rightResult
                 ELSE IF leftResult.decimals # rightResult.decimals
                 THEN Thrown(ComparisonDecimalMismatchError(leftResult.decimals,
                                                            rightResult.decimals))
                 ELSE ComparisonResult(compare(node.operator, leftResult.raw, rightResult.raw),
                                       node.operator, leftResult.human, rightResult.human,
                                       leftResult.decimals,
                                       IF leftResult.warning # Undefined
                                       THEN leftResult.warning ELSE rightResult.warning)))

(***************************************************************************)
(* Public API.                                                             *)
(***************************************************************************)
\* evaluateExpression(expression, variables, roundingMode)
evaluateExpression(source, variableMap, mode) ==
    Then(tokenize(source), LAMBDA lexed :
        IF lexed.error.name # "none" THEN Thrown(lexed.error)
        ELSE Then(parse(lexed.tokens), LAMBDA parsed :
                 IF parsed.error.name # "none" THEN Thrown(parsed.error)
                 ELSE IF parsed.node.type = "COMPARISON"
                 THEN evaluateComparison(parsed.node, variableMap, mode)
                 ELSE evaluate(parsed.node, variableMap, mode)))

\* evaluateExpressionWithTarget(expression, variables, targetDecimals, roundingMode)
evaluateExpressionWithTarget(source, variableMap, target, mode) ==
    Then(tokenize(source), LAMBDA lexed :
        IF lexed.error.name # "none" THEN Thrown(lexed.error)
        ELSE Then(parse(lexed.tokens), LAMBDA parsed :
                 IF parsed.error.name # "none" THEN Thrown(parsed.error)
                 ELSE evaluateWithTargetDecimals(parsed.node, variableMap, target, mode)))

\* the Set the latest call of evaluate or evaluateWithTargetDecimals made, as
\* the call leaves it; a call that fails before evaluating makes none, and a
\* comparison makes one for each side, the right one only if the left side
\* evaluated
lastTypeBounds(source, variableMap, mode, withTarget) ==
    Then(tokenize(source), LAMBDA lexed :
        IF lexed.error.name # "none" THEN trackedTypeBounds
        ELSE Then(parse(lexed.tokens), LAMBDA parsed :
                 IF parsed.error.name # "none" THEN trackedTypeBounds
                 ELSE IF parsed.node.type = "COMPARISON" /\ ~withTarget
                 THEN IF evaluate(parsed.node.left, variableMap, mode).error.name # "none"
                      THEN trackedTypes(parsed.node.left, variableMap, mode, newTypeBounds)
                      ELSE trackedTypes(parsed.node.right, variableMap, mode, newTypeBounds)
                 ELSE trackedTypes(parsed.node, variableMap, mode, newTypeBounds)))

\* a traversal that does not visit the exponent of an exponentiation
RECURSIVE extractVariablesFromASTSkippingExponent(_)
extractVariablesFromASTSkippingExponent(node) ==
    CASE node.type = "IDENTIFIER" -> {node.name}
      [] node.type \in {"BINARY_OP", "COMPARISON"} ->
            extractVariablesFromASTSkippingExponent(node.left)
            \cup extractVariablesFromASTSkippingExponent(node.right)
      [] node.type = "EXPONENTIATION" -> extractVariablesFromASTSkippingExponent(node.base)
      [] OTHER -> {}

\* extractVariablesFromAST(node): the names visit adds to the set
RECURSIVE extractVariablesFromAST(_)
extractVariablesFromAST(node) ==
    CASE node.type = "IDENTIFIER" -> {node.name}
      [] node.type = "BINARY_OP" ->
            extractVariablesFromAST(node.left) \cup extractVariablesFromAST(node.right)
      [] node.type = "EXPONENTIATION" ->
            extractVariablesFromAST(node.base) \cup extractVariablesFromAST(node.exponent)
      [] node.type = "COMPARISON" ->
            extractVariablesFromAST(node.left) \cup extractVariablesFromAST(node.right)
      [] OTHER -> {}

\* extractVariables(expression): whatever tokenize or parse throws is caught
extractVariables(source) ==
    Then(tokenize(source), LAMBDA lexed :
        IF lexed.error.name # "none" THEN {}
        ELSE Then(parse(lexed.tokens), LAMBDA parsed :
                 IF parsed.error.name # "none" THEN {}
                 ELSE extractVariablesFromAST(parsed.node)))

(***************************************************************************)
(* Inputs: the source strings, variable maps and rounding modes a call is  *)
(* made with.                                                              *)
(***************************************************************************)
RoundingModes == {"floor", "ceil"}

Binary(left, operator, right) == left \o <<" ">> \o operator \o <<" ">> \o right

Paren(source) == <<"(">> \o source \o <<")">>

OperatorTexts == {<<"+">>, <<"-">>, <<"*">>, <<"/">>, <<"*", "*">>}

IdA == <<"a">>

IdB == <<"b">>

AOverB == Paren(Binary(IdA, <<"/">>, IdB))

BOverA == Paren(Binary(IdB, <<"/">>, IdA))

\* operand pairs built from the two variables
VariableOperands ==
    {<<IdA, IdB>>, <<AOverB, IdA>>, <<IdA, AOverB>>, <<AOverB, AOverB>>, <<AOverB, BOverA>>}

VariableSources == {Binary(pair[1], op, pair[2]) : pair \in VariableOperands, op \in OperatorTexts}

\* literals: plain integers, a scale constant, a scientific literal, absorbed decimals
LiteralTexts ==
    {<<"0">>, <<"1">>, <<"2">>, <<"7">>, <<"1", "0">>,
     <<"1", "e", "1">>, <<"1", "e", "2">>, <<"5", "e", "1">>,
     <<"2", ".", "5", " ", "*", " ", "1", "0">>,
     <<"0", ".", "5", " ", "*", " ", "1", "e", "1">>}

LiteralSources == {Binary(l, op, r) : l \in LiteralTexts, r \in LiteralTexts, op \in OperatorTexts}

MixedSources ==
    {Binary(l, op, IdA) : l \in LiteralTexts, op \in OperatorTexts}
    \cup {Binary(IdA, op, l) : l \in LiteralTexts, op \in OperatorTexts}

\* powers of ten with a sub-expression exponent, and products with a power of ten
PowerSources ==
    {<<"1", "0", " ", "*", "*", " ">> \o Paren(Binary(IdA, <<"+">>, <<"1">>)),
     <<"1", "0", " ", "*", "*", " ">> \o Paren(Binary(IdA, <<"*">>, IdB)),
     <<"1", "0", " ", "*", "*", " ">> \o Paren(Binary(IdA, <<"/">>, IdB)),
     Binary(IdA, <<"*">>, <<"1", "0", " ", "*", "*", " ", "b">>),
     Binary(IdA, <<"*">>, <<"(", "1", "0", " ", "*", "*", " ", "b", ")">>),
     Binary(IdA, <<"/">>, <<"1", "0", " ", "*", "*", " ", "b">>),
     <<"(", "1", "0", ")", " ", "*", "*", " ", "b">>,
     <<"(", "5", " ", "+", " ", "5", ")", " ", "*", "*", " ", "b">>,
     <<"1", "0", " ", "*", "*", " ", "1", "0", " ", "*", "*", " ", "0">>}

\* a decimal literal times a scale constant: D.F * 1eN
DecimalIntegerParts == {<<"0">>, <<"8">>, <<"1", "2">>}

DecimalFractionParts == {<<"5">>, <<"2", "5">>, <<"0", "5">>}

ScaleExponents == {<<"0">>, <<"1">>, <<"2">>, <<"3">>}

DecimalSources ==
    {d \o <<".">> \o f \o <<" ", "*", " ", "1">> \o e \o n :
        d \in DecimalIntegerParts, f \in DecimalFractionParts,
        e \in {<<"e">>, <<"E">>}, n \in ScaleExponents}

\* scientific-notation and plain integer literals
Mantissas == {<<"1">>, <<"5">>, <<"0", "1">>, <<"1", "0">>, <<"0">>, <<"1", "2">>}

ExponentTexts == {<<"0">>, <<"1">>, <<"2">>, <<"3">>, <<"0", "3">>}

NumberSources ==
    {m \o e \o sign \o n :
        m \in Mantissas, e \in {<<"e">>, <<"E">>}, sign \in {<<>>, <<"+">>, <<"-">>},
        n \in ExponentTexts}
    \cup Mantissas

\* comparisons of the two variables and of arithmetic on them
ComparisonTexts == {<<"=", "=">>, <<"!", "=">>, <<"<">>, <<"<", "=">>, <<">">>, <<">", "=">>}

ComparisonOperands ==
    {<<IdA, IdB>>, <<IdA, Binary(IdB, <<"+">>, <<"1">>)>>,
     <<Binary(IdA, <<"*">>, IdB), IdA>>, <<IdA, Binary(IdA, <<"/">>, IdB)>>}

ComparisonSources ==
    {Binary(pair[1], op, pair[2]) : pair \in ComparisonOperands, op \in ComparisonTexts}

\* bound literals of 8- and 16-bit types beside a literal, the variable or
\* another bound literal
BoundTexts ==
    {<<"t", "y", "p", "e", "(", "u", "i", "n", "t", "8", ")", ".", "m", "a", "x">>,
     <<"t", "y", "p", "e", "(", "u", "i", "n", "t", "8", ")", ".", "m", "i", "n">>,
     <<"t", "y", "p", "e", "(", "i", "n", "t", "8", ")", ".", "m", "a", "x">>,
     <<"t", "y", "p", "e", "(", "i", "n", "t", "8", ")", ".", "m", "i", "n">>,
     <<"t", "y", "p", "e", "(", "u", "i", "n", "t", "1", "6", ")", ".", "m", "a", "x">>}

\* a bound literal alone, for the widths 8, 16 and 24
BoundWidths == {<<"8">>, <<"1", "6">>, <<"2", "4">>}

TypeBoundSources ==
    {<<"t", "y", "p", "e", "(">> \o sign \o <<"i", "n", "t">> \o width \o <<")", ".">> \o bound :
        sign \in {<<>>, <<"u">>}, width \in BoundWidths,
        bound \in {<<"m", "a", "x">>, <<"m", "i", "n">>}}

ArithmeticTexts == {<<"+">>, <<"-">>, <<"*">>, <<"/">>}

BoundSources ==
    {Binary(l, op, r) : l \in BoundTexts, op \in ArithmeticTexts,
                        r \in {<<"0">>, <<"1">>, <<"2">>, IdA}}
    \cup {Binary(l, op, r) : l \in {<<"0">>, <<"2">>, IdA}, op \in ArithmeticTexts,
                             r \in BoundTexts}
    \cup {Binary(l, op, r) : l \in BoundTexts, op \in {<<"+">>, <<"-">>}, r \in BoundTexts}

\* chains of three and four literals without parentheses
ChainSources ==
    {Binary(Binary(<<"7">>, op1, <<"2">>), op2, <<"1">>) :
        op1 \in OperatorTexts, op2 \in OperatorTexts}
    \cup {Binary(Binary(Binary(<<"2">>, op1, <<"1", "0">>), op2, <<"2">>), op3, <<"1">>) :
             op1 \in OperatorTexts, op2 \in OperatorTexts, op3 \in OperatorTexts}

\* a decimal literal and what follows it
DecimalContinuations ==
    {<<>>, <<" ", "*", " ", "1", "0">>, <<" ", "*", " ", "1", "5">>, <<" ", "*", " ", "5", "e", "1">>, <<" ", "*", " ", "1", "e", "0">>, <<" ", "*", " ", "1", "e", "1">>, <<" ", "*", " ", "1", "E", "2">>, <<" ", "*", " ", "a">>,
     <<" ", "*", " ", "(", "1", "e", "2", ")">>, <<" ", "+", " ", "1">>, <<" ", "/", " ", "2">>, <<" ", "*">>}

DecimalContinuationSources ==
    {d \o c : d \in {<<"2", ".", "5">>, <<"0", ".", "2", "5">>}, c \in DecimalContinuations}

\* sources that do not tokenize or do not parse
BrokenSources ==
    {<<"a", " ", "$", " ", "b">>, <<"a", " ", "+">>, <<"(", "a", " ", "*", " ", "b">>,
     <<"a", " ", "b">>, <<"a", " ", "<", " ", "b", " ", "<", " ", "a">>, <<>>}

\* sources for the tokenizer alone: bound literals of every form, words that
\* only begin like one, comparison operators, malformed numbers, whitespace
TokenizerSources ==
    {<<"t", "y", "p", "e", "(", "u", "i", "n", "t", ")", ".", "m", "a", "x">>,
     <<"t", "y", "p", "e", "(", "i", "n", "t", ")", ".", "m", "i", "n">>,
     <<"t", "y", "p", "e", "(", "u", "i", "n", "t", "2", "5", "6", ")", ".", "m", "a", "x">>,
     <<"t", "y", "p", "e", "(", "i", "n", "t", "2", "5", "6", ")", ".", "m", "i", "n">>,
     <<"t", "y", "p", "e", "(", "u", "i", "n", "t", "7", ")", ".", "m", "a", "x">>,
     <<"t", "y", "p", "e", "(", "i", "n", "t", "0", ")", ".", "m", "i", "n">>,
     <<"t", "y", "p", "e", "(", "u", "i", "n", "t", "2", "6", "4", ")", ".", "m", "a", "x">>,
     <<"1", " ", "+", " ", "t", "y", "p", "e", "(", "i", "n", "t", "1", "2", ")", ".", "m", "i", "n">>,
     <<" ", " ", "t", "y", "p", "e", "(", "u", "i", "n", "t", "8", ")", ".", "m", "i", "n">>,
     <<"t", "y", "p", "e", "(", "u", "i", "n", "t", "8", ")", ".", "m", "a", "x", "+", "1">>,
     <<"t", "y", "p", "e", "(", "i", "n", "t", "1", "6", ")", ".", "m", "i", "n", "i", "m", "u", "m">>,
     <<"t", "y", "p", "e", "(", "u", "i", "n", "t", ")", ".", "m", "a", "x", "t", "y", "p", "e", "(", "i", "n", "t", ")", ".", "m", "i", "n">>,
     <<"t", "y", "p", "e">>,
     <<"t", "y", "p", "e", " ", "+", " ", "1">>,
     <<"t", "y", "p", "e", "(", "a", ")">>,
     <<"t", "y", "p", "e", "(", "u", "i", "n", "t", "8", ")">>,
     <<"t", "y", "p", "e", "(", "u", "i", "n", "t", "8", ")", ".", "m", "i", "d">>,
     <<"t", "y", "p", "e", "(", "u", "i", "n", "t", "8", " ", ")", ".", "m", "a", "x">>,
     <<"t", "y", "p", "e", "d">>,
     <<"a", "<", "=", "b">>,
     <<"a", "<", "b">>,
     <<"a", "!", "=", "b">>,
     <<"a", "=", "b">>,
     <<"a", " ", ">", "=", " ", "b", " ", "=", "=", " ", "a">>,
     <<"1", "e">>,
     <<"1", "e", "+">>,
     <<"1", "2", " ", "1", "e", "3", " ", "0", ".", "5">>,
     <<"a", "_", "1", " ", "b", "2">>,
     <<"0", ".", "5", " ", "*", " ", "1", "e", "1">>,
     <<" ", " ", " ">>,
     <<"a", " ", "$", " ", "b">>,
     <<"a", "\t", "+", "\n", "b", "\r">>,
     <<" ", "7", " ", " ", "*", "\t", "(", "\n", "b", " ", ")">>}

\* comparisons chained, parenthesized, inside operands, and beside
\* parenthesized operands
NestedComparisonSources ==
    {<<"a", " ", "=", "=", " ", "b", " ", "=", "=", " ", "a">>,
     <<"a", " ", "<", " ", "b", " ", ">", " ", "a">>,
     <<"(", "a", " ", "<", " ", "b", ")">>,
     <<"a", " ", "+", " ", "(", "b", " ", "<", " ", "a", ")">>,
     <<"(", "a", " ", ">", "=", " ", "b", ")", " ", "*", " ", "2">>,
     <<"1", "0", " ", "*", "*", " ", "(", "a", " ", "!", "=", " ", "b", ")">>,
     <<"a", " ", "<", " ", "(", "b", " ", "<", " ", "a", ")">>,
     <<"(", "a", ")", " ", "<", " ", "(", "b", " ", "+", " ", "1", ")">>,
     <<"a", " ", "+", " ", "b", " ", "<", "=", " ", "a", " ", "*", " ", "b">>,
     <<"a", " ", "<">>,
     <<"<", " ", "a">>}

\* one or two names
NameSources == {IdA, IdB, Binary(IdA, <<"+">>, IdB), Binary(IdB, <<"*">>, IdA)}

Variable(value, decimals) == [value |-> value, decimals |-> Some(decimals)]

Variables == {Variable(v, d) : v \in -MaxValue..MaxValue, d \in 0..MaxDecimals}

\* maps that bind both names, maps that bind only a, and the empty map
MapsAB == [{IdA, IdB} -> Variables]

MapsA == [{IdA} -> Variables]

NoVariables == [n \in {} |-> Variable(0, 0)]

\* maps that may lack a name or its scale
LooseVariables ==
    {[value |-> v, decimals |-> d] :
        v \in {-1, 2}, d \in {Undefined, Some(-1), Some(0), Some(1)}}

LooseMaps ==
    {NoVariables} \cup [{IdA} -> LooseVariables] \cup [{IdB} -> LooseVariables]
    \cup [{IdA, IdB} -> LooseVariables]

\* the sources whose names are extracted before any variable is known
ExtractSources ==
    VariableSources \cup PowerSources \cup MixedSources \cup ComparisonSources
    \cup NameSources \cup BrokenSources

\* the sources evaluated at a target scale
TargetSources ==
    MixedSources \cup BoundSources \cup NameSources \cup LiteralSources \cup DecimalSources

NoResult == [error |-> [name |-> "pending"]]

NoCall == [name |-> "none"]

(***************************************************************************)
(* The calls.                                                              *)
(***************************************************************************)
Init ==
    /\ \/ expression \in VariableSources /\ variables \in MapsAB
       \/ expression \in PowerSources /\ variables \in MapsAB
       \/ expression \in MixedSources /\ variables \in MapsA
       \/ expression \in ComparisonSources /\ variables \in MapsAB
       \/ expression \in BoundSources /\ variables \in MapsA
       \/ expression \in NameSources /\ variables \in LooseMaps
       \/ expression \in LiteralSources \cup DecimalSources \cup NumberSources
                         \cup ChainSources \cup DecimalContinuationSources
                         \cup ExtractSources \cup TypeBoundSources \cup TokenizerSources
                         \cup NestedComparisonSources
          /\ variables = NoVariables
    /\ roundingMode \in RoundingModes
    /\ targetDecimals = 0
    /\ pc = "ready"
    /\ tokens = NoResult
    /\ ast = NoResult
    /\ result = NoResult
    /\ callDividend = 0
    /\ callDivisor = 1
    /\ trackedTypeBounds = <<>>
    /\ calls = <<>>
    /\ storeVariables = NoVariables
    /\ storeCall = NoCall

\* bound literals wider than MaxBits exceed the integers of the model
MaxBits == 24

\* the width a TYPE_BOUND token names
tokenBits(token) ==
    LET close == indexOf(token.value, ")", 1)
        from == IF token.value[6] = "u" THEN 10 ELSE 9
        bitsStr == SubSeq(token.value, from, close - 1)
    IN  IF bitsStr = <<>> THEN 256 ELSE digitsToInt(bitsStr)

\* every bound literal of the source is at most MaxBits wide
BoundsFit(source) ==
    Then(tokenize(source), LAMBDA lexed :
        lexed.error.name = "none"
        => \A i \in 1..Len(lexed.tokens) :
              lexed.tokens[i].type = "TYPE_BOUND" => tokenBits(lexed.tokens[i]) <= MaxBits)

\* tokenize(expression)
Tokenize ==
    /\ pc = "ready"
    /\ variables = NoVariables
    /\ tokens' = tokenize(expression)
    /\ result' = tokens'
    /\ pc' = "tokenize"
    /\ UNCHANGED <<expression, variables, roundingMode, targetDecimals, ast>>
    /\ UNCHANGED roundingArguments
    /\ UNCHANGED storeState
    /\ UNCHANGED callRecord

\* evaluateExpression(expression, variables, roundingMode); tokens and ast are
\* the locals of the call
EvaluateExpression ==
    /\ pc = "ready"
    /\ BoundsFit(expression)
    /\ tokens' = tokenize(expression)
    /\ ast' = IF tokens'.error.name = "none" THEN parse(tokens'.tokens) ELSE NoResult
    /\ result' = evaluateExpression(expression, variables, roundingMode)
    /\ pc' = "evaluateExpression"
    /\ UNCHANGED <<expression, variables, roundingMode, targetDecimals>>
    /\ UNCHANGED roundingArguments
    /\ UNCHANGED storeState
    /\ UNCHANGED callRecord

TargetDecimals == 0..MaxDecimals

\* the largest magnitude a rescaling may produce
MaxMagnitude == 1000000000

\* the value of the source rescaled to the target stays within MaxMagnitude
RescaleIsBounded(source, variableMap, target, mode) ==
    Then(evaluateExpression(source, variableMap, mode), LAMBDA evaluated :
        evaluated.error.name = "none" /\ target > evaluated.decimals
        => /\ target - evaluated.decimals <= 9
           /\ Abs(evaluated.raw) <= MaxMagnitude \div Pow(10, target - evaluated.decimals))

\* evaluateExpressionWithTarget(expression, variables, targetDecimals, roundingMode)
EvaluateExpressionWithTarget ==
    /\ pc = "ready"
    /\ expression \in TargetSources
    /\ targetDecimals' \in TargetDecimals
    /\ RescaleIsBounded(expression, variables, targetDecimals', roundingMode)
    /\ tokens' = tokenize(expression)
    /\ ast' = IF tokens'.error.name = "none" THEN parse(tokens'.tokens) ELSE NoResult
    /\ result' = evaluateExpressionWithTarget(expression, variables, targetDecimals', roundingMode)
    /\ pc' = "evaluateExpressionWithTarget"
    /\ UNCHANGED <<expression, variables, roundingMode>>
    /\ UNCHANGED roundingArguments
    /\ UNCHANGED storeState
    /\ UNCHANGED callRecord

\* extractVariables(expression)
ExtractVariables ==
    /\ pc = "ready"
    /\ variables = NoVariables
    /\ BoundsFit(expression)
    /\ tokens' = tokenize(expression)
    /\ ast' = IF tokens'.error.name = "none" THEN parse(tokens'.tokens) ELSE NoResult
    /\ result' = extractVariables(expression)
    /\ pc' = "extractVariables"
    /\ UNCHANGED <<expression, variables, roundingMode, targetDecimals>>
    /\ UNCHANGED roundingArguments
    /\ UNCHANGED storeState
    /\ UNCHANGED callRecord

Next ==
    \/ EvaluateExpression
    \/ EvaluateExpressionWithTarget
    \/ ExtractVariables
    \/ Tokenize

Spec == Init /\ [][Next]_vars

(***************************************************************************)
(* Direct calls of divideWithRounding.                                     *)
(***************************************************************************)
InitRounding ==
    /\ callDividend \in -MaxDividend..MaxDividend
    /\ callDivisor \in -MaxDivisor..MaxDivisor
    /\ roundingMode \in RoundingModes
    /\ expression = <<>>
    /\ variables = NoVariables
    /\ targetDecimals = 0
    /\ pc = "ready"
    /\ tokens = NoResult
    /\ ast = NoResult
    /\ result = NoResult
    /\ trackedTypeBounds = <<>>
    /\ calls = <<>>
    /\ storeVariables = NoVariables
    /\ storeCall = NoCall

\* divideWithRounding(callDividend, callDivisor, mode)
DivideWithRounding ==
    /\ pc = "ready"
    /\ result' = IF callDivisor = 0
                 THEN Thrown([name |-> "Error", message |-> "Division by zero"])
                 ELSE [error |-> NoError,
                       quotient |-> divideWithRounding(callDividend, callDivisor, roundingMode)]
    /\ pc' = "divideWithRounding"
    /\ UNCHANGED <<expression, variables, roundingMode, targetDecimals, tokens, ast>>
    /\ UNCHANGED roundingArguments
    /\ UNCHANGED storeState
    /\ UNCHANGED callRecord

NextRounding == DivideWithRounding

SpecRounding == InitRounding /\ [][NextRounding]_vars

(***************************************************************************)
(* The calculator store of the UI.                                         *)
(***************************************************************************)
VariableInput(name, value, decimals) == [name |-> name, value |-> value, decimals |-> decimals]

\* an updater that adds the new names and removes none
setExpressionKeepingAll(prevVars, detectedVars) ==
    [varName \in DOMAIN prevVars \cup detectedVars |->
        IF varName \in DOMAIN prevVars THEN prevVars[varName]
        ELSE VariableInput(varName, <<>>, <<>>)]

\* the updater setExpression passes to setVariables: names no longer in the
\* expression are deleted, new names are set with empty value and decimals
setExpressionVariables(prevVars, detectedVars) ==
    [varName \in detectedVars |->
        IF varName \in DOMAIN prevVars THEN prevVars[varName]
        ELSE VariableInput(varName, <<>>, <<>>)]

\* what is typed into the expression field
StoreSources ==
    {<<>>, IdA, Binary(IdA, <<"+">>, IdB), Binary(IdB, <<"*">>, <<"2">>),
     Binary(IdA, <<"<">>, IdB), <<"1", "0", " ", "*", "*", " ", "a">>,
     <<"a", " ", "+">>, <<"a", " ", "$", " ", "b">>, <<"2", " ", "+", " ", "3">>}

\* the names the setters are called with; c is in no expression
StoreNames == {IdA, IdB, <<"c">>}

\* what is typed into a value or decimals field
StoreTexts == {<<>>, <<"1", "8">>}

InitStore ==
    /\ expression = <<>>
    /\ variables = NoVariables
    /\ roundingMode = "floor"
    /\ targetDecimals = 0
    /\ pc = "ready"
    /\ tokens = NoResult
    /\ ast = NoResult
    /\ result = NoResult
    /\ callDividend = 0
    /\ callDivisor = 1
    /\ trackedTypeBounds = <<>>
    /\ calls = <<>>
    /\ storeVariables = NoVariables
    /\ storeCall = NoCall

\* setExpression(newExpression)
SetExpression ==
    /\ \E newExpression \in StoreSources :
          /\ expression' = newExpression
          /\ storeVariables' = setExpressionVariables(storeVariables,
                                                      extractVariables(newExpression))
          /\ storeCall' = [name |-> "setExpression", prevVars |-> storeVariables]
    /\ pc' = "setExpression"
    /\ UNCHANGED <<variables, roundingMode, targetDecimals, tokens, ast, result>>
    /\ UNCHANGED roundingArguments
    /\ UNCHANGED callRecord

\* setVariableValue(name, value)
SetVariableValue ==
    /\ \E name \in StoreNames, value \in StoreTexts :
          /\ storeVariables' = IF name \in DOMAIN storeVariables
                               THEN [storeVariables EXCEPT ![name].value = value]
                               ELSE storeVariables
          /\ storeCall' = [name |-> "setVariableValue", variable |-> name, text |-> value,
                           prevVars |-> storeVariables]
    /\ pc' = "setVariableValue"
    /\ UNCHANGED <<expression, variables, roundingMode, targetDecimals, tokens, ast, result>>
    /\ UNCHANGED roundingArguments
    /\ UNCHANGED callRecord

\* setVariableDecimals(name, decimals)
SetVariableDecimals ==
    /\ \E name \in StoreNames, decimals \in StoreTexts :
          /\ storeVariables' = IF name \in DOMAIN storeVariables
                               THEN [storeVariables EXCEPT ![name].decimals = decimals]
                               ELSE storeVariables
          /\ storeCall' = [name |-> "setVariableDecimals", variable |-> name, text |-> decimals,
                           prevVars |-> storeVariables]
    /\ pc' = "setVariableDecimals"
    /\ UNCHANGED <<expression, variables, roundingMode, targetDecimals, tokens, ast, result>>
    /\ UNCHANGED roundingArguments
    /\ UNCHANGED callRecord

NextStore == SetExpression \/ SetVariableValue \/ SetVariableDecimals

SpecStore == InitStore /\ [][NextStore]_vars

(***************************************************************************)
(* Calls that follow one another in one process.                           *)
(***************************************************************************)
MaxCalls == 3

\* a bound literal beside the variable, a product without bound literals, an
\* evaluation that fails after a bound literal was read, a comparison with a
\* bound literal on its left side, and a source that does not parse
CallSources ==
    {<<"t", "y", "p", "e", "(", "u", "i", "n", "t", "8", ")", ".", "m", "a", "x", " ", "+", " ", "a">>,
     <<"a", " ", "*", " ", "2", "0", "0">>,
     <<"t", "y", "p", "e", "(", "i", "n", "t", "8", ")", ".", "m", "i", "n", " ", "/", " ",
       "(", "a", " ", "-", " ", "a", ")">>,
     <<"t", "y", "p", "e", "(", "u", "i", "n", "t", "8", ")", ".", "m", "a", "x", " ", "<", " ",
       "a", " ", "*", " ", "2", "0", "0">>,
     <<"a", " ", "+">>}

CallMaps == [{IdA} -> {Variable(2, 0), Variable(-1, 0)}]

CallTargets == {0, 1}

Call(name, source, variableMap, target, mode, outcome) ==
    [name |-> name, expression |-> source, variables |-> variableMap,
     targetDecimals |-> target, roundingMode |-> mode, result |-> outcome]

InitCalls ==
    /\ expression = <<>>
    /\ variables \in CallMaps
    /\ roundingMode \in RoundingModes
    /\ targetDecimals \in CallTargets
    /\ pc = "ready"
    /\ tokens = NoResult
    /\ ast = NoResult
    /\ result = NoResult
    /\ callDividend = 0
    /\ callDivisor = 1
    /\ trackedTypeBounds = <<>>
    /\ calls = <<>>
    /\ storeVariables = NoVariables
    /\ storeCall = NoCall

\* evaluateExpression(source, variables, roundingMode), after the calls made
\* so far
CallEvaluateExpression ==
    /\ Len(calls) < MaxCalls
    /\ \E source \in CallSources :
          /\ expression' = source
          /\ tokens' = tokenize(source)
          /\ ast' = IF tokens'.error.name = "none" THEN parse(tokens'.tokens) ELSE NoResult
          /\ result' = evaluateExpression(source, variables, roundingMode)
          /\ trackedTypeBounds' = lastTypeBounds(source, variables, roundingMode, FALSE)
          /\ calls' = Append(calls, Call("evaluateExpression", source, variables, Undefined,
                                         roundingMode, result'))
    /\ pc' = "evaluateExpression"
    /\ UNCHANGED <<variables, roundingMode, targetDecimals>>
    /\ UNCHANGED roundingArguments
    /\ UNCHANGED storeState

\* evaluateExpressionWithTarget(source, variables, targetDecimals, roundingMode),
\* after the calls made so far
CallEvaluateExpressionWithTarget ==
    /\ Len(calls) < MaxCalls
    /\ \E source \in CallSources :
          /\ expression' = source
          /\ tokens' = tokenize(source)
          /\ ast' = IF tokens'.error.name = "none" THEN parse(tokens'.tokens) ELSE NoResult
          /\ result' = evaluateExpressionWithTarget(source, variables, targetDecimals,
                                                    roundingMode)
          /\ trackedTypeBounds' = lastTypeBounds(source, variables, roundingMode, TRUE)
          /\ calls' = Append(calls, Call("evaluateExpressionWithTarget", source, variables,
                                         Some(targetDecimals), roundingMode, result'))
    /\ pc' = "evaluateExpressionWithTarget"
    /\ UNCHANGED <<variables, roundingMode, targetDecimals>>
    /\ UNCHANGED roundingArguments
    /\ UNCHANGED storeState

NextCalls == CallEvaluateExpression \/ CallEvaluateExpressionWithTarget

SpecCalls == InitCalls /\ [][NextCalls]_vars

(***************************************************************************)
(* Properties.                                                             *)
(***************************************************************************)
\* the call has returned and the source parsed
SourceParsed == pc = "evaluateExpression" /\ tokens.error.name = "none" /\ ast.error.name = "none"

Succeeded == result.error.name = "none"

RootIsBinary(operator) ==
    SourceParsed /\ ast.node.type = "BINARY_OP" /\ ast.node.operator = operator

RootIsExponentiation == SourceParsed /\ ast.node.type = "EXPONENTIATION"

\* what the operands of the root evaluate to
LeftOperand == evaluateNode(ast.node.left, variables, roundingMode, <<>>)

RightOperand == evaluateNode(ast.node.right, variables, roundingMode, <<>>)

OperandsEvaluate == LeftOperand.error.name = "none" /\ RightOperand.error.name = "none"

\* C1: A * B has magnitude a * b and scale sa + sb, whatever the signs of the
\* magnitudes and of the scales
C1_ScaleAdditivity ==
    RootIsBinary("*") /\ OperandsEvaluate
    => /\ Succeeded
       /\ result.raw = LeftOperand.value * RightOperand.value
       /\ result.decimals = LeftOperand.decimals + RightOperand.decimals

C1_Witness ==
    /\ RootIsBinary("*") /\ OperandsEvaluate /\ Succeeded
    /\ LeftOperand.value < 0 /\ RightOperand.value > 0
    /\ LeftOperand.decimals > 0 /\ RightOperand.decimals < 0

\* C2: A / B fails with DivisionByZeroError when b = 0, in either mode and
\* whatever the scales; otherwise it succeeds with scale sa - sb
C2_ScaleSubtractivity ==
    RootIsBinary("/") /\ OperandsEvaluate
    => IF RightOperand.value = 0
       THEN result.error.name = "DivisionByZeroError"
       ELSE Succeeded /\ result.decimals = LeftOperand.decimals - RightOperand.decimals

C2_Witness ==
    /\ RootIsBinary("/") /\ OperandsEvaluate /\ Succeeded
    /\ roundingMode = "ceil"
    /\ LeftOperand.decimals < RightOperand.decimals
    /\ result.decimals < 0

\* the text of a plain integer literal: digits only
isPlainInteger(text) == \A i \in 1..Len(text) : isDigit(text[i])

\* the left (right) operand of the root is written as one plain integer literal
LeftIsBareLiteral ==
    /\ ast.node.left.type = "NUMBER_LITERAL"
    /\ tokens.tokens[1].type = "NUMBER"
    /\ isPlainInteger(tokens.tokens[1].value)

RightIsBareLiteral ==
    LET n == Len(tokens.tokens)
    IN  /\ ast.node.right.type = "NUMBER_LITERAL"
        /\ tokens.tokens[n - 1].type = "NUMBER"
        /\ isPlainInteger(tokens.tokens[n - 1].value)
        /\ tokens.tokens[n - 2].type \in {"PLUS", "MINUS"}

\* the operand is a bare integer literal of scale 0 beside an operand of scale > 0
LeftIsLiftable ==
    LeftIsBareLiteral /\ LeftOperand.decimals = 0 /\ RightOperand.decimals > 0

RightIsLiftable ==
    RightIsBareLiteral /\ RightOperand.decimals = 0 /\ LeftOperand.decimals > 0

RootIsAdditive == RootIsBinary("+") \/ RootIsBinary("-")

Combined(operator, a, b) == IF operator = "+" THEN a + b ELSE a - b

\* C3: A + B and A - B with unequal scales and no auto-liftable bare integer
\* literal fail with a scale mismatch carrying both scales and the operator;
\* with equal scales the result is a + b (a - b) at the common scale
C3_AdditionRequiresEqualScales ==
    RootIsAdditive /\ OperandsEvaluate
    => /\ (LeftOperand.decimals # RightOperand.decimals
             /\ ~LeftIsLiftable /\ ~RightIsLiftable)
          => result.error = DecimalMismatchError(LeftOperand.decimals, RightOperand.decimals,
                                                 ast.node.operator)
       /\ LeftOperand.decimals = RightOperand.decimals
          => /\ Succeeded
             /\ result.raw = Combined(ast.node.operator, LeftOperand.value, RightOperand.value)
             /\ result.decimals = LeftOperand.decimals

\* C4: in + and - an operand is lifted exactly when it is a bare integer
\* literal of scale 0 and the other scale is greater than 0, its magnitude
\* being unchanged; nothing is lifted in * and /
C4_LiftOnlyBareIntegerLiterals ==
    /\ RootIsAdditive /\ OperandsEvaluate /\ LeftOperand.decimals # RightOperand.decimals
       => /\ Succeeded <=> (LeftIsLiftable \/ RightIsLiftable)
          /\ Succeeded
             => /\ result.raw = Combined(ast.node.operator, LeftOperand.value, RightOperand.value)
                /\ result.decimals = IF LeftIsLiftable THEN RightOperand.decimals
                                     ELSE LeftOperand.decimals
    /\ RootIsBinary("*") /\ OperandsEvaluate
       => result.decimals = LeftOperand.decimals + RightOperand.decimals
    /\ RootIsBinary("/") /\ OperandsEvaluate /\ RightOperand.value # 0
       => result.decimals = LeftOperand.decimals - RightOperand.decimals

OtherMode == IF roundingMode = "floor" THEN "ceil" ELSE "floor"

\* C5: for a >= 0 and b > 0, a / b is the floor of the quotient in floor mode
\* and its ceiling in ceil mode, and both modes agree when b divides a
C5_FloorAndCeilOfPositiveDivision ==
    RootIsBinary("/") /\ OperandsEvaluate /\ LeftOperand.value >= 0 /\ RightOperand.value > 0
    => LET a == LeftOperand.value
           b == RightOperand.value
       IN  /\ Succeeded
           /\ roundingMode = "floor"
              => result.raw * b <= a /\ a < (result.raw + 1) * b
           /\ roundingMode = "ceil"
              => (result.raw - 1) * b < a /\ a <= result.raw * b
           /\ a % b = 0
              => result.raw = divisionQuotient(a, b, OtherMode)

C5_Witness ==
    /\ RootIsBinary("/") /\ OperandsEvaluate /\ Succeeded
    /\ roundingMode = "ceil"
    /\ LeftOperand.value = 7 /\ RightOperand.value = 2
    /\ result.raw = 4

\* the sign of a rendered loss
LossIsZero == result.roundingLoss = <<"0">>

LossIsNegative == ~LossIsZero /\ result.roundingLoss[1] = "-"

\* C6: the loss of an outermost division is >= 0 in floor mode, <= 0 in ceil
\* mode, and zero exactly when the division has no remainder
C6_RoundingLossSign ==
    RootIsBinary("/") /\ Succeeded
    => /\ roundingMode = "floor" => ~LossIsNegative
       /\ roundingMode = "ceil" => LossIsZero \/ LossIsNegative
       /\ LossIsZero <=> BigIntRem(LeftOperand.value, RightOperand.value) = 0

BaseIsLiteralTen ==
    /\ ast.node.base.type = "NUMBER_LITERAL"
    /\ ast.node.base.value = 10
    /\ ast.node.base.decimals = 0

Exponent == evaluateNode(ast.node.exponent, variables, roundingMode, <<>>)

\* C8: B ** E returns a value only if the base node is the integer literal 10
\* and E evaluates to scale 0 with a non-negative safe integer; every other
\* case fails with InvalidExponentiationError
C8_ExponentiationRestriction ==
    RootIsExponentiation /\ (Exponent.error.name = "none" \/ ~BaseIsLiteralTen)
    => IF /\ BaseIsLiteralTen
          /\ Exponent.decimals = 0
          /\ Exponent.value >= 0 /\ Exponent.value <= MaxSafeInteger
       THEN Succeeded
       ELSE result.error.name = "InvalidExponentiationError"

\* the source is a single number token
SourceIsNumber ==
    /\ pc = "evaluateExpression" /\ tokens.error.name = "none"
    /\ Len(tokens.tokens) = 2 /\ tokens.tokens[1].type = "NUMBER"

SourceIsScaledDecimal ==
    /\ pc = "evaluateExpression" /\ tokens.error.name = "none"
    /\ Len(tokens.tokens) = 4
    /\ tokens.tokens[1].type = "DECIMAL_LITERAL"
    /\ tokens.tokens[2].type = "MULTIPLY"
    /\ tokens.tokens[3].type = "NUMBER"
    /\ SubSeq(toLowerCase(tokens.tokens[3].value), 1, 2) = <<"1", "e">>

\* C10: D.F * 1eN with N >= |F| evaluates to the result of the single literal
\* of magnitude DF * 10^(N - |F|) and scale N
C10_DecimalAbsorption ==
    SourceIsScaledDecimal
    => LET text == tokens.tokens[1].value
           dot == indexOf(text, ".", 1)
           D == SubSeq(text, 1, dot - 1)
           F == SubSeq(text, dot + 1, Len(text))
           scale == tokens.tokens[3].value
           N == digitsToInt(SubSeq(scale, 3, Len(scale)))
       IN  N >= Len(F)
           => /\ Succeeded
              /\ result = evaluate(NumberLiteralNode(digitsToInt(D \o F) * Pow(10, N - Len(F)), N),
                                   variables, roundingMode)

C10_Witness ==
    /\ SourceIsScaledDecimal /\ Succeeded
    /\ expression = <<"8", ".", "5", " ", "*", " ", "1", "e", "2">>
    /\ result.raw = 850 /\ result.decimals = 2
    /\ result.human = <<"8", ".", "5", "0">>

\* the source parsed, whichever call was made
ParseCalls == {"evaluateExpression", "evaluateExpressionWithTarget", "extractVariables"}

ParseRecorded == pc \in ParseCalls /\ tokens.error.name = "none"

\* the text is a scale constant: mantissa exactly 1, then e or E and digits
isScaleConstant(text) ==
    /\ Len(text) >= 3
    /\ text[1] = "1" /\ text[2] \in {"e", "E"}
    /\ isPlainInteger(SubSeq(text, 3, Len(text)))

\* the source starts with a decimal literal
SourceStartsWithDecimal == ParseRecorded /\ tokens.tokens[1].type = "DECIMAL_LITERAL"

\* the fractional digits of the leading decimal literal
LeadingFraction ==
    LET text == tokens.tokens[1].value
    IN  SubSeq(text, indexOf(text, ".", 1) + 1, Len(text))

\* the leading decimal literal is followed by * and a large enough scale constant
ContinuationIsSufficientScale ==
    /\ Len(tokens.tokens) >= 4
    /\ tokens.tokens[2].type = "MULTIPLY"
    /\ tokens.tokens[3].type = "NUMBER"
    /\ isScaleConstant(tokens.tokens[3].value)
    /\ digitsToInt(SubSeq(tokens.tokens[3].value, 3, Len(tokens.tokens[3].value)))
          >= Len(LeadingFraction)

\* C11: a leading decimal literal parses only when followed by * and a scale
\* constant 1eN with N >= |F|; the pair alone then parses to the node with
\* m * 10^|F| = (digits without the point) * 10^N and scale N
C11_DecimalLiteralContinuation ==
    SourceStartsWithDecimal
    => /\ ast.error.name = "none" => ContinuationIsSufficientScale
       /\ ast.error.name # "none" => ast.error.name = "ParseError"
       /\ ContinuationIsSufficientScale /\ Len(tokens.tokens) = 4
          => LET text == tokens.tokens[1].value
                 dot == indexOf(text, ".", 1)
                 digits == SubSeq(text, 1, dot - 1) \o LeadingFraction
                 N == digitsToInt(SubSeq(tokens.tokens[3].value, 3, Len(tokens.tokens[3].value)))
             IN  /\ ast.error.name = "none"
                 /\ ast.node.type = "NUMBER_LITERAL"
                 /\ ast.node.value * Pow(10, Len(LeadingFraction)) = digitsToInt(digits) * Pow(10, N)
                 /\ ast.node.decimals = N

\* evaluateExpression returned the result of a numeric expression
NumericSucceeded ==
    /\ pc = "evaluateExpression" /\ tokens.error.name = "none" /\ ast.error.name = "none"
    /\ ast.node.type # "COMPARISON"
    /\ Succeeded

\* the type names written in the bound literals of the source
ReferencedTypes ==
    {SubSeq(tokens.tokens[i].value, 6, indexOf(tokens.tokens[i].value, ")", 1) - 1) :
        i \in {j \in 1..Len(tokens.tokens) : tokens.tokens[j].type = "TYPE_BOUND"}}

TypeIsSigned(solidityType) == solidityType[1] = "i"

TypeBits(solidityType) ==
    digitsToInt(SubSeq(solidityType, IF TypeIsSigned(solidityType) THEN 4 ELSE 5,
                       Len(solidityType)))

TypeMin(solidityType) ==
    IF TypeIsSigned(solidityType) THEN -Pow(2, TypeBits(solidityType) - 1) ELSE 0

TypeMax(solidityType) ==
    IF TypeIsSigned(solidityType) THEN Pow(2, TypeBits(solidityType) - 1) - 1
    ELSE Pow(2, TypeBits(solidityType)) - 1

\* C12: the result carries a warning exactly when its scale is 0 and its
\* magnitude is outside the range of a type named by a bound literal of the
\* source; the warning names such a type, with kind overflow above its
\* maximum and underflow below its minimum
C12_OverflowWarning ==
    NumericSucceeded
    => /\ result.warning # Undefined
          <=> /\ result.decimals = 0
              /\ \E t \in ReferencedTypes : result.raw > TypeMax(t) \/ result.raw < TypeMin(t)
       /\ result.warning # Undefined
          => LET warning == result.warning[1]
             IN  /\ warning.solidityType \in ReferencedTypes
                 /\ warning.kind \in {"overflow", "underflow"}
                 /\ warning.kind = "overflow" <=> result.raw > TypeMax(warning.solidityType)
                 /\ warning.kind = "underflow" <=> result.raw < TypeMin(warning.solidityType)

C12_Witness ==
    /\ NumericSucceeded
    /\ expression = <<"t", "y", "p", "e", "(", "u", "i", "n", "t", "8", ")", ".", "m", "a", "x",
                      " ", "+", " ", "1">>
    /\ result.raw = 256 /\ result.decimals = 0
    /\ result.warning # Undefined
    /\ result.warning[1].solidityType = <<"u", "i", "n", "t", "8">>
    /\ result.warning[1].kind = "overflow"

\* C13: the wrapped value of a warning is congruent to the raw magnitude
\* modulo 2^N and lies in the range of the warning's N-bit type; in uint8
\* 256 wraps to 0 and 257 to 1, in int8 128 wraps to -128
C13_WrappedValue ==
    /\ calculateWrappedValue(256, 8, FALSE) = 0
    /\ calculateWrappedValue(257, 8, FALSE) = 1
    /\ calculateWrappedValue(128, 8, TRUE) = -128
    /\ NumericSucceeded /\ result.warning # Undefined
       => LET warning == result.warning[1]
              range == Pow(2, TypeBits(warning.solidityType))
          IN  /\ (warning.wrappedValue - result.raw) % range = 0
              /\ warning.wrappedValue >= TypeMin(warning.solidityType)
              /\ warning.wrappedValue <= TypeMax(warning.solidityType)

\* type(int8).min - 1 = -129 wraps to 127
C13_Witness ==
    /\ NumericSucceeded
    /\ expression = <<"t", "y", "p", "e", "(", "i", "n", "t", "8", ")", ".", "m", "i", "n",
                      " ", "-", " ", "1">>
    /\ result.raw = -129
    /\ result.warning # Undefined
    /\ result.warning[1].kind = "underflow"
    /\ result.warning[1].wrappedValue = 127

\* the comparison operators among the tokens of the source
ComparisonPositions ==
    {i \in 1..Len(tokens.tokens) : tokens.tokens[i].type \in ComparisonTokenTypes}

\* the source is a comparison of two numeric expressions and parsed
RootIsComparison ==
    /\ pc = "evaluateExpression" /\ tokens.error.name = "none" /\ ast.error.name = "none"
    /\ ComparisonPositions # {}

\* the text of the comparison operator of the source
SourceOperator == tokens.tokens[CHOOSE i \in ComparisonPositions : TRUE].value

\* the relation an operator text denotes, on two integers
Holds(operatorText, x, y) ==
    CASE operatorText = <<"=", "=">> -> x = y
      [] operatorText = <<"!", "=">> -> x # y
      [] operatorText = <<"<">> -> x < y
      [] operatorText = <<"<", "=">> -> x <= y
      [] operatorText = <<">">> -> x > y
      [] operatorText = <<">", "=">> -> x >= y

\* C14: a comparison whose sides evaluate to different scales does not fail:
\* both sides are brought to the larger scale S and compared there, and the
\* result reports S
C14_ComparisonNormalizesScales ==
    RootIsComparison /\ OperandsEvaluate /\ LeftOperand.decimals # RightOperand.decimals
    => LET sl == LeftOperand.decimals
           sr == RightOperand.decimals
           S == IF sl > sr THEN sl ELSE sr
       IN  /\ Succeeded
           /\ result.result = Holds(SourceOperator, LeftOperand.value * Pow(10, S - sl),
                                    RightOperand.value * Pow(10, S - sr))
           /\ result.decimals = S

\* the result is a ComparisonResult: it has a boolean result and an operator
IsComparisonResult ==
    /\ {"result", "operator"} \subseteq DOMAIN result
    /\ result.result \in BOOLEAN

\* the result is an EvaluationResult
IsEvaluationResult ==
    /\ {"raw", "decimals", "human", "solidity", "roundingLoss"} \subseteq DOMAIN result
    /\ "result" \notin DOMAIN result

\* C15: a successful evaluateExpression returns a ComparisonResult exactly
\* when the source's top-level operator is a comparison and an
\* EvaluationResult otherwise; for sides of equal scale the boolean is the
\* operator applied to the two raw magnitudes
C15_ComparisonResultDispatch ==
    /\ pc = "evaluateExpression" /\ tokens.error.name = "none" /\ ast.error.name = "none"
       /\ Succeeded
       => /\ IsComparisonResult <=> ComparisonPositions # {}
          /\ IsEvaluationResult <=> ComparisonPositions = {}
    /\ RootIsComparison /\ OperandsEvaluate /\ LeftOperand.decimals = RightOperand.decimals
       => /\ Succeeded
          /\ IsComparisonResult
          /\ result.result = Holds(SourceOperator, LeftOperand.value, RightOperand.value)
          /\ result.operator = comparisonOperator(tokens.tokens[CHOOSE i \in ComparisonPositions : TRUE].type)
          /\ result.decimals = LeftOperand.decimals

\* a <= b with equal magnitudes at the same scale is true
C15_Witness ==
    /\ RootIsComparison /\ Succeeded
    /\ expression = Binary(IdA, <<"<", "=">>, IdB)
    /\ variables[IdA] = Variable(-2, 1) /\ variables[IdB] = Variable(-2, 1)
    /\ result.result = TRUE
    /\ result.operator = "<="

\* evaluateExpressionWithTarget returned a result
TargetSucceeded ==
    /\ pc = "evaluateExpressionWithTarget"
    /\ tokens.error.name = "none" /\ ast.error.name = "none"
    /\ Succeeded

\* the integer a decimal text denotes once its point is removed
DecimalTextValue(text) ==
    LET negative == Len(text) > 0 /\ text[1] = "-"
        unsigned == IF negative THEN Tail(text) ELSE text
        dot == indexOf(unsigned, ".", 1)
        digits == IF dot = 0 THEN unsigned
                  ELSE SubSeq(unsigned, 1, dot - 1) \o SubSeq(unsigned, dot + 1, Len(unsigned))
    IN  IF negative THEN -digitsToInt(digits) ELSE digitsToInt(digits)

\* the number of digits after the point of a decimal text
FractionLength(text) ==
    LET dot == indexOf(text, ".", 1)
    IN  IF dot = 0 THEN 0 ELSE Len(text) - dot

\* C16: evaluateExpressionWithTarget returns raw and decimals unrescaled; for
\* target >= scale solidity = raw * 10^(target - scale) with loss 0; for
\* target < scale and D = 10^(scale - target), raw = solidity * D + loss with
\* 0 <= loss < D in floor mode and -D < loss <= 0 in ceil mode, and
\* roundingLoss renders loss with scale digits after the point
C16_TargetRescaling ==
    TargetSucceeded
    => LET evaluated == evaluateNode(ast.node, variables, roundingMode, <<>>)
           scale == result.decimals
           lossValue == DecimalTextValue(result.roundingLoss)
       IN  /\ result.raw = evaluated.value
           /\ result.decimals = evaluated.decimals
           /\ targetDecimals >= scale
              => /\ result.solidity = result.raw * Pow(10, targetDecimals - scale)
                 /\ lossValue = 0
           /\ targetDecimals < scale
              => LET D == Pow(10, scale - targetDecimals)
                     loss == result.raw - result.solidity * D
                 IN  /\ roundingMode = "floor" => 0 <= loss /\ loss < D
                     /\ roundingMode = "ceil" => -D < loss /\ loss <= 0
                     /\ lossValue = loss
                     /\ FractionLength(result.roundingLoss) = scale

\* -0.1 brought to scale 0 in floor mode is -1 with loss 0.9
C16_Witness ==
    /\ TargetSucceeded
    /\ expression = IdA
    /\ variables[IdA] = [value |-> -1, decimals |-> Some(1)]
    /\ targetDecimals = 0 /\ roundingMode = "floor"
    /\ result.raw = -1 /\ result.decimals = 1
    /\ result.solidity = -1
    /\ result.roundingLoss = <<"0", ".", "9">>

\* the source contains a division
SourceHasDivision == \E i \in 1..Len(tokens.tokens) : tokens.tokens[i].type = "DIVIDE"

\* C17: a successful evaluateExpression of a numeric expression returns
\* solidity = raw in either mode; without a division in the source the
\* other mode returns the same result
C17_SolidityEqualsRaw ==
    NumericSucceeded
    => /\ result.solidity = result.raw
       /\ ~SourceHasDivision
          => evaluateExpression(expression, variables, OtherMode) = result

\* 0.2 * 0.2 is 4 at scale 2 and is not brought to any other scale
C17_Witness ==
    /\ NumericSucceeded
    /\ expression = Binary(IdA, <<"*">>, IdB)
    /\ variables[IdA] = Variable(2, 1) /\ variables[IdB] = Variable(2, 1)
    /\ roundingMode = "ceil"
    /\ result.raw = 4 /\ result.decimals = 2 /\ result.solidity = 4

\* the source is a single identifier and evaluateExpression was called
SourceIsIdentifier ==
    /\ pc = "evaluateExpression" /\ tokens.error.name = "none"
    /\ Len(tokens.tokens) = 2
    /\ tokens.tokens[1].type = "IDENTIFIER"

\* C18: an identifier evaluates to its variable's magnitude and scale when the
\* name is in the map with a scale >= 0; an absent name gives
\* UndefinedVariableError carrying the name, an unset scale the missing-scale
\* error, a negative scale an error
C18_IdentifierEvaluation ==
    SourceIsIdentifier
    => LET name == tokens.tokens[1].value
       IN  IF name \notin DOMAIN variables
           THEN /\ result.error.name = "UndefinedVariableError"
                /\ result.error.variableName = name
           ELSE IF variables[name].decimals = <<>>
           THEN /\ result.error.name = "MissingDecimalsError"
                /\ result.error.variableName = name
           ELSE IF variables[name].decimals[1] < 0
           THEN result.error.name \notin {"none", "UndefinedVariableError", "MissingDecimalsError"}
           ELSE /\ Succeeded
                /\ result.raw = variables[name].value
                /\ result.decimals = variables[name].decimals[1]

\* a name bound to a variable of scale -1
C18_Witness ==
    /\ SourceIsIdentifier /\ expression = IdA
    /\ IdA \in DOMAIN variables
    /\ variables[IdA] = [value |-> 2, decimals |-> Some(-1)]
    /\ result.error.name = "Error"

\* the identifier names among the tokens of the source
IdentifierNames ==
    {tokens.tokens[i].value :
        i \in {j \in 1..Len(tokens.tokens) : tokens.tokens[j].type = "IDENTIFIER"}}

\* C19: extractVariables returns the set of the identifier names of the
\* parsed source, wherever they stand in the tree, and the empty set when
\* the source does not tokenize or does not parse
C19_ExtractVariables ==
    pc = "extractVariables"
    => IF tokens.error.name = "none" /\ ast.error.name = "none"
       THEN result = IdentifierNames
       ELSE result = {}

\* both names of the exponent of 10 ** (a * b) are found
C19_Witness ==
    /\ pc = "extractVariables"
    /\ expression = <<"1", "0", " ", "*", "*", " ">> \o Paren(Binary(IdA, <<"*">>, IdB))
    /\ ast.error.name = "none"
    /\ ast.node.type = "EXPONENTIATION"
    /\ result = {IdA, IdB}

\* the source is a chain of plain integer literals and arithmetic operators,
\* without parentheses, and parsed
SourceIsLiteralChain ==
    /\ pc \in ParseCalls /\ tokens.error.name = "none" /\ ast.error.name = "none"
    /\ \A i \in 1..Len(tokens.tokens) :
          \/ tokens.tokens[i].type \in {"PLUS", "MINUS", "MULTIPLY", "DIVIDE", "POWER", "EOF"}
          \/ tokens.tokens[i].type = "NUMBER" /\ isPlainInteger(tokens.tokens[i].value)

\* the texts of the tokens before the end marker, numbers without leading zeros
TokenTexts ==
    [i \in 1..(Len(tokens.tokens) - 1) |->
        IF tokens.tokens[i].type = "NUMBER"
        THEN natToString(digitsToInt(tokens.tokens[i].value))
        ELSE tokens.tokens[i].value]

IsAdditive(node) == node.type = "BINARY_OP" /\ node.operator \in {"+", "-"}

IsMultiplicative(node) == node.type = "BINARY_OP" /\ node.operator \in {"*", "/"}

\* the operands and operators of a tree of literals, from left to right
RECURSIVE InOrder(_)
InOrder(node) ==
    CASE node.type = "BINARY_OP" ->
            InOrder(node.left)
            \o <<IF node.operator = "+" THEN <<"+">>
                 ELSE IF node.operator = "-" THEN <<"-">>
                 ELSE IF node.operator = "*" THEN <<"*">> ELSE <<"/">> >>
            \o InOrder(node.right)
      [] node.type = "EXPONENTIATION" ->
            InOrder(node.base) \o << <<"*", "*">> >> \o InOrder(node.exponent)
      [] OTHER -> <<natToString(node.value)>>

\* no operand of an operator binds less tightly than the operator, a right
\* operand of + - * / does not bind equally, the base of ** is a literal
RECURSIVE RespectsPrecedence(_)
RespectsPrecedence(node) ==
    CASE IsAdditive(node) ->
            /\ ~IsAdditive(node.right)
            /\ RespectsPrecedence(node.left) /\ RespectsPrecedence(node.right)
      [] IsMultiplicative(node) ->
            /\ ~IsAdditive(node.left)
            /\ node.right.type # "BINARY_OP"
            /\ RespectsPrecedence(node.left) /\ RespectsPrecedence(node.right)
      [] node.type = "EXPONENTIATION" ->
            /\ node.base.type = "NUMBER_LITERAL"
            /\ node.exponent.type # "BINARY_OP"
            /\ RespectsPrecedence(node.exponent)
      [] OTHER -> TRUE

\* the tree of an operand text of VariableOperands
OperandTree(text) ==
    CASE text = IdA -> IdentifierNode(IdA)
      [] text = IdB -> IdentifierNode(IdB)
      [] text = AOverB -> BinaryOpNode("/", IdentifierNode(IdA), IdentifierNode(IdB))
      [] text = BOverA -> BinaryOpNode("/", IdentifierNode(IdB), IdentifierNode(IdA))

\* the root node an operator text builds from two operand trees
RootNode(operatorText, left, right) ==
    IF operatorText = <<"*", "*">> THEN ExponentiationNode(left, right)
    ELSE BinaryOpNode(operatorText[1], left, right)

\* C20: in a parsed chain ** binds tighter than * and /, which bind tighter
\* than + and -; + - * / group to the left and ** to the right; the tree
\* keeps the order of the tokens; a parenthesized sub-expression is one
\* operand of the operator beside it
C20_PrecedenceAndAssociativity ==
    /\ SourceIsLiteralChain
       => /\ InOrder(ast.node) = TokenTexts
          /\ RespectsPrecedence(ast.node)
    /\ pc \in ParseCalls
       => \A pair \in VariableOperands, op \in OperatorTexts :
             expression = Binary(pair[1], op, pair[2])
             => /\ ast.error.name = "none"
                /\ ast.node = RootNode(op, OperandTree(pair[1]), OperandTree(pair[2]))

\* 2 / 10 / 2 - 1 is ((2 / 10) / 2) - 1
C20_Witness ==
    /\ SourceIsLiteralChain
    /\ expression = <<"2", " ", "/", " ", "1", "0", " ", "/", " ", "2", " ", "-", " ", "1">>
    /\ ast.node = BinaryOpNode("-",
                       BinaryOpNode("/",
                           BinaryOpNode("/", NumberLiteralNode(2, 0), NumberLiteralNode(10, 0)),
                           NumberLiteralNode(2, 0)),
                       NumberLiteralNode(1, 0))

\* the source is a single bound literal and parsed
SourceIsTypeBound ==
    /\ pc \in ParseCalls /\ tokens.error.name = "none"
    /\ Len(tokens.tokens) = 2
    /\ tokens.tokens[1].type = "TYPE_BOUND"

\* C21: a bound literal parses to a node of scale 0 naming the type and the
\* bound, of magnitude 2^N - 1 for unsigned max, 0 for unsigned min,
\* 2^(N-1) - 1 for signed max and -2^(N-1) for signed min
C21_TypeBoundMagnitudes ==
    SourceIsTypeBound
    => LET text == tokens.tokens[1].value
           close == indexOf(text, ")", 1)
           typeName == SubSeq(text, 6, close - 1)
           bound == SubSeq(text, close + 2, Len(text))
           N == TypeBits(typeName)
       IN  /\ ast.error.name = "none"
           /\ ast.node.type = "TYPE_BOUND_LITERAL"
           /\ ast.node.decimals = 0
           /\ ast.node.solidityType = typeName
           /\ ast.node.bound = bound
           /\ ast.node.value =
                 IF typeName[1] = "u"
                 THEN IF bound = <<"m", "a", "x">> THEN Pow(2, N) - 1 ELSE 0
                 ELSE IF bound = <<"m", "a", "x">> THEN Pow(2, N - 1) - 1 ELSE -Pow(2, N - 1)

\* type(int16).min is -32768
C21_Witness ==
    /\ SourceIsTypeBound
    /\ expression = <<"t", "y", "p", "e", "(", "i", "n", "t", "1", "6", ")", ".", "m", "i", "n">>
    /\ ast.error.name = "none"
    /\ ast.node.value = -32768
    /\ ast.node.solidityType = <<"i", "n", "t", "1", "6">>

\* divideWithRounding returned a quotient
Divided == pc = "divideWithRounding" /\ result.error.name = "none"

\* q is the largest integer with q * b <= a, for the sign of b
IsFloor(q, a, b) ==
    LET rest == a - q * b
    IN  IF b > 0 THEN 0 <= rest /\ rest < b ELSE b < rest /\ rest <= 0

\* q is the smallest integer with q * b >= a, for the sign of b
IsCeiling(q, a, b) ==
    LET rest == q * b - a
    IN  IF b > 0 THEN 0 <= rest /\ rest < b ELSE b < rest /\ rest <= 0

\* b divides a
Divides(b, a) == \E k \in -Abs(a)..Abs(a) : k * b = a

\* C22: for a non-zero callDivisor the floor quotient is the floor of a/b and the
\* ceil quotient its ceiling; the two differ by one exactly when b does not
\* divide a
C22_FloorAndCeilDivide ==
    Divided
    => /\ roundingMode = "floor" => IsFloor(result.quotient, callDividend, callDivisor)
       /\ roundingMode = "ceil" => IsCeiling(result.quotient, callDividend, callDivisor)
       /\ ceilDivide(callDividend, callDivisor)
            = floorDivide(callDividend, callDivisor) + (IF Divides(callDivisor, callDividend) THEN 0 ELSE 1)

\* -7 / 3 in floor mode is -3
C22_Witness ==
    /\ Divided
    /\ callDividend = -7 /\ callDivisor = 3 /\ roundingMode = "floor"
    /\ result.quotient = -3

\* tokenize returned the tokens of the source
Tokenized == pc = "tokenize" /\ tokens.error.name = "none"

\* the characters from-th to to-th of a text, as far as it reaches
Slice(text, from, to) == SubSeq(text, from, IF to > Len(text) THEN Len(text) ELSE to)

\* the source text from an offset on
SourceFrom(offset) == Slice(expression, offset + 1, Len(expression))

\* the text begins with type( uint|int digits* ).max|min; the result is the
\* length of that span, or 0
BoundSpan(text) ==
    LET signed == Slice(text, 6, 8) = <<"i", "n", "t">>
        unsigned == Slice(text, 6, 9) = <<"u", "i", "n", "t">>
        digitsFrom == IF signed THEN 9 ELSE 10
        digitsEnd == CHOOSE k \in digitsFrom..(Len(text) + 1) :
                        /\ \A i \in digitsFrom..(k - 1) : isDigit(text[i])
                        /\ k > Len(text) \/ ~isDigit(text[k])
        tail == Slice(text, digitsEnd, digitsEnd + 4)
    IN  IF /\ Slice(text, 1, 5) = <<"t", "y", "p", "e", "(">>
           /\ signed \/ unsigned
           /\ tail \in {<<")", ".", "m", "a", "x">>, <<")", ".", "m", "i", "n">>}
        THEN digitsEnd + 4
        ELSE 0

\* the token text the span of a bound literal must give
NormalizedBound(text) ==
    LET span == BoundSpan(text)
        signed == text[6] = "i"
        digitsFrom == IF signed THEN 9 ELSE 10
        digits == Slice(text, digitsFrom, span - 5)
    IN  Slice(text, 1, digitsFrom - 1)
        \o (IF digits = <<>> THEN <<"2", "5", "6">> ELSE digits)
        \o Slice(text, span - 4, span)

\* the width written in the span of a bound literal is supported
WidthIsSupported(text) ==
    LET span == BoundSpan(text)
        digits == Slice(text, IF text[6] = "i" THEN 9 ELSE 10, span - 5)
    IN  \/ digits = <<>>
        \/ LET N == digitsToInt(digits) IN N % 8 = 0 /\ N >= 8 /\ N <= 256

\* the offsets at which a token starting with the word type begins: at the
\* start, after a character that is not part of an identifier, or right
\* after a bound literal, and outside every earlier bound literal
TypeOffsets ==
    {k \in 0..(Len(expression) - 1) :
        /\ Slice(SourceFrom(k), 1, 4) = <<"t", "y", "p", "e">>
        /\ \/ k = 0
           \/ ~isIdentifierPart(expression[k])
           \/ \E j \in 0..(k - 1) : BoundSpan(SourceFrom(j)) > 0 /\ j + BoundSpan(SourceFrom(j)) = k
        /\ \A j \in 0..(k - 1) : BoundSpan(SourceFrom(j)) = 0 \/ j + BoundSpan(SourceFrom(j)) <= k}

\* the offsets of the bound patterns whose width is not supported
UnsupportedOffsets ==
    {k \in TypeOffsets : BoundSpan(SourceFrom(k)) > 0 /\ ~WidthIsSupported(SourceFrom(k))}

\* C23: a bound pattern becomes one TYPE_BOUND token with the normalized text
\* at the offset of type, and the next token starts after the span; an
\* unsupported width makes tokenize fail at that offset; type without the
\* pattern is an identifier
C23_TypeBoundToken ==
    pc = "tokenize"
    => /\ \A k \in UnsupportedOffsets :
             (\A j \in UnsupportedOffsets : k <= j)
             => tokens.error.name = "ParseError" /\ tokens.error.position = k
       /\ tokens.error.name = "none"
          => /\ UnsupportedOffsets = {}
             /\ \A k \in TypeOffsets :
                   \E i \in 1..(Len(tokens.tokens) - 1) :
                      LET token == tokens.tokens[i]
                          span == BoundSpan(SourceFrom(k))
                      IN  /\ token.position = k
                          /\ IF span > 0
                             THEN /\ token.type = "TYPE_BOUND"
                                  /\ token.value = NormalizedBound(SourceFrom(k))
                                  /\ tokens.tokens[i + 1].position >= k + span
                                  /\ \A j \in (k + span)..(tokens.tokens[i + 1].position - 1) :
                                        isWhitespace(expression[j + 1])
                             ELSE /\ token.type = "IDENTIFIER"
                                  /\ Slice(token.value, 1, 4) = <<"t", "y", "p", "e">>

\* type(uint).maxtype(int).min gives the two tokens type(uint256).max and
\* type(int256).min
C23_Witness ==
    /\ Tokenized
    /\ expression = <<"t", "y", "p", "e", "(", "u", "i", "n", "t", ")", ".", "m", "a", "x",
                      "t", "y", "p", "e", "(", "i", "n", "t", ")", ".", "m", "i", "n">>
    /\ Len(tokens.tokens) = 3
    /\ tokens.tokens[1] = Token("TYPE_BOUND",
                                <<"t", "y", "p", "e", "(", "u", "i", "n", "t", "2", "5", "6", ")",
                                  ".", "m", "a", "x">>, 0)
    /\ tokens.tokens[2].position = 14
    /\ tokens.tokens[2].type = "TYPE_BOUND"

\* the number of source characters a token stands for
TokenSpan(token) ==
    IF token.type = "TYPE_BOUND"
    THEN BoundSpan(SourceFrom(token.position))
    ELSE Len(token.value)

\* C24: the tokens of a source end with the only EOF token, their positions
\* increase strictly, each position is the offset of the token's first
\* character, and everything between two tokens is whitespace
C24_TokenPositions ==
    Tokenized
    => LET list == tokens.tokens
           n == Len(list)
       IN  /\ n >= 1
           /\ list[n] = Token("EOF", <<>>, Len(expression))
           /\ \A i \in 1..(n - 1) :
                 /\ list[i].type # "EOF"
                 /\ list[i].position < list[i + 1].position
                 /\ list[i].position < Len(expression)
                 /\ ~isWhitespace(expression[list[i].position + 1])
                 /\ TokenSpan(list[i]) >= 1
                 /\ list[i].type # "TYPE_BOUND"
                    => Slice(expression, list[i].position + 1,
                             list[i].position + Len(list[i].value)) = list[i].value
                 /\ \A j \in 1..Len(list[i].value) : ~isWhitespace(list[i].value[j])
                 /\ \A j \in (list[i].position + TokenSpan(list[i]))..(list[i + 1].position - 1) :
                       isWhitespace(expression[j + 1])
           /\ \A j \in 0..(list[1].position - 1) : isWhitespace(expression[j + 1])

\* a, +, b separated by a tab, a newline and a carriage return
C24_Witness ==
    /\ Tokenized
    /\ expression = <<"a", "\t", "+", "\n", "b", "\r">>
    /\ tokens.tokens = <<Token("IDENTIFIER", <<"a">>, 0), Token("PLUS", <<"+">>, 2),
                         Token("IDENTIFIER", <<"b">>, 4), Token("EOF", <<>>, 6)>>

\* C25: the quotient of an outermost division a / b with b # 0 is
\* floorDivide(a, b) in floor mode and ceilDivide(a, b) in ceil mode
C25_DivisionRoundsAsDivideWithRounding ==
    RootIsBinary("/") /\ OperandsEvaluate /\ RightOperand.value # 0
    => /\ Succeeded
       /\ result.raw = divideWithRounding(LeftOperand.value, RightOperand.value, roundingMode)

\* the root of the parsed source is a division
RootIsDivision == RootIsBinary("/")

Depth(i) ==
    Cardinality({j \in 1..(i - 1) : tokens.tokens[j].type = "LPAREN"})
    - Cardinality({j \in 1..(i - 1) : tokens.tokens[j].type = "RPAREN"})

RECURSIVE ContainsComparison(_)
ContainsComparison(node) ==
    CASE node.type = "COMPARISON" -> TRUE
      [] node.type = "BINARY_OP" -> ContainsComparison(node.left) \/ ContainsComparison(node.right)
      [] node.type = "EXPONENTIATION" ->
            ContainsComparison(node.base) \/ ContainsComparison(node.exponent)
      [] OTHER -> FALSE

\* C27: two comparison operators, or one inside parentheses, make parse fail
\* with a ParseError; in a tree that parse returns a Comparison node is the
\* root or nowhere, and its children hold none
C27_SingleComparisonAtRoot ==
    ParseRecorded
    => /\ \/ Cardinality(ComparisonPositions) >= 2
          \/ \E i \in ComparisonPositions : Depth(i) > 0
          => ast.error.name = "ParseError"
       /\ ast.error.name = "none"
          => IF ast.node.type = "COMPARISON"
             THEN /\ ~ContainsComparison(ast.node.left)
                  /\ ~ContainsComparison(ast.node.right)
                  /\ Cardinality(ComparisonPositions) = 1
             ELSE /\ ~ContainsComparison(ast.node)
                  /\ ComparisonPositions = {}

\* a < b > a stops at the second comparison operator
C27_Witness ==
    /\ ParseRecorded
    /\ expression = <<"a", " ", "<", " ", "b", " ", ">", " ", "a">>
    /\ Cardinality(ComparisonPositions) = 2
    /\ ast.error = ParseError("Unexpected token", 6)

\* the text of a NUMBER token has a negative exponent
HasNegativeExponent(text) == \E i \in 1..Len(text) : text[i] = "-"

\* C28: the position of a ParseError thrown by parse is the source offset of
\* a token, and for an invalid number it is the offset of the literal with
\* the negative exponent
C28_ParseErrorPosition ==
    ParseRecorded /\ ast.error.name = "ParseError"
    => \E i \in 1..Len(tokens.tokens) :
          /\ tokens.tokens[i].position = ast.error.position
          /\ ast.error.message = "Invalid number"
             => /\ tokens.tokens[i].type = "NUMBER"
                /\ HasNegativeExponent(tokens.tokens[i].value)

\* the source holds a bound literal
HasBoundLiteral(source) ==
    \E k \in 1..Len(source) : Slice(source, k, k + 4) = <<"t", "y", "p", "e", "(">>

\* two recorded calls had the same arguments
SameArguments(first, second) ==
    /\ first.name = second.name
    /\ first.expression = second.expression
    /\ first.variables = second.variables
    /\ first.targetDecimals = second.targetDecimals
    /\ first.roundingMode = second.roundingMode

C30_StoreVariablesFollowExpression ==
    /\ DOMAIN storeVariables = extractVariables(expression)
    /\ storeCall.name = "setExpression"
       => \A varName \in DOMAIN storeVariables :
             storeVariables[varName] =
                IF varName \in DOMAIN storeCall.prevVars THEN storeCall.prevVars[varName]
                ELSE VariableInput(varName, <<>>, <<>>)
    /\ storeCall.name \in {"setVariableValue", "setVariableDecimals"}
       => IF storeCall.variable \notin DOMAIN storeCall.prevVars
          THEN storeVariables = storeCall.prevVars
          ELSE /\ DOMAIN storeVariables = DOMAIN storeCall.prevVars
               /\ \A varName \in DOMAIN storeVariables \ {storeCall.variable} :
                     storeVariables[varName] = storeCall.prevVars[varName]
               /\ storeVariables[storeCall.variable] =
                     IF storeCall.name = "setVariableValue"
                     THEN [storeCall.prevVars[storeCall.variable] EXCEPT !.value = storeCall.text]
                     ELSE [storeCall.prevVars[storeCall.variable] EXCEPT !.decimals = storeCall.text]

\* a + b with both fields of both names filled in is replaced by b * 2: a is
\* removed and b keeps its fields
C30_Witness ==
    /\ storeCall.name = "setExpression"
    /\ expression = Binary(IdB, <<"*">>, <<"2">>)
    /\ DOMAIN storeCall.prevVars = {IdA, IdB}
    /\ storeCall.prevVars[IdA] = VariableInput(IdA, <<"1", "8">>, <<"1", "8">>)
    /\ storeVariables = (IdB :> VariableInput(IdB, <<"1", "8">>, <<"1", "8">>))

====
